---------------------------- MODULE Spec2Model ----------------------------
(***************************************************************************)
(* A model of the concurrent B-link tree of huayichai/blink-tree.          *)
(*   Node, InternalNode, LeafNode : src/node.h lines 20-384                *)
(*   BLinkTree                    : src/node.h lines 420-843               *)
(* Every thread runs the public operations of BLinkTree; one action of the *)
(* model is one access to shared memory (a load of root, a load of a       *)
(* node's lock word, a compare-and-swap, a read or an update of one node)  *)
(* together with the thread-local computation that follows it.             *)
(***************************************************************************)
EXTENDS Integers, Sequences, FiniteSets, TLC

(***************************************************************************)
(* Bounds of the model.                                                    *)
(***************************************************************************)
\* entries of a leaf (LeafNode::cardinality, 30 for PAGE_SIZE 512)
LeafCardinality == 4
\* entry slots of an internal node (InternalNode::cardinality, 30 for PAGE_SIZE 512)
InternalCardinality == 4
\* operations a thread that runs alone chooses freely
MaxSeqOps == 2
\* largest n of a freely chosen range_lookup
MaxRange == 3
\* largest lock word of a node whose latch is exercised on its own
MaxVersion == 9

Threads == {1, 2}
Null == 0

VARIABLES
  heap,     \* the allocated nodes: heap[p] is the node at address p
  root,     \* BLinkTree::root
  th,       \* th[t]: the locals of thread t and its place in the code
  script,   \* script[t]: the operations thread t still has to call, in order
  free,     \* free[t]: how many operations thread t may still choose freely
  gate,     \* operations thread 1 runs alone before the other threads start
  abs,      \* the key->value map the finished and published operations add up to
  absU,     \* the same map, with every insert taking effect at a write_unlock
  seen,     \* the <<key, value>> pairs ever passed to insert or update
  called,   \* the kinds of operation called so far
  removed   \* removed: for each key, how many removes of it have returned true

vars == <<heap, root, th, script, free, gate, abs, absU, seen, called, removed>>

(***************************************************************************)
(* Small helpers.                                                          *)
(***************************************************************************)
Min(S) == CHOOSE x \in S : \A y \in S : x <= y
Max(S) == CHOOSE x \in S : \A y \in S : x >= y

\* memmove/memcpy of whole entries: the sequence s with x put in at 0-based pos
InsertAt(s, pos, x) == SubSeq(s, 1, pos) \o <<x>> \o SubSeq(s, pos + 1, Len(s))
\* the sequence s without its element at 0-based pos
RemoveAt(s, pos) == SubSeq(s, 1, pos) \o SubSeq(s, pos + 2, Len(s))
\* memcpy(dst, src, Len(src) entries): src laid over the front of dst
Overlay(dst, src) ==
  [i \in 1..Max({Len(dst), Len(src)}) |-> IF i <= Len(src) THEN src[i] ELSE dst[i]]

(***************************************************************************)
(* class Node: the version latch.                                          *)
(***************************************************************************)
is_locked(version) == (version \div 2) % 2 = 1
is_obsolete(version) == version % 2 = 1
need_restart(version) == is_locked(version) \/ is_obsolete(version)

\* Node::cnt: the model keeps exactly the live entries
cnt(n) == Len(n.keys)

(***************************************************************************)
(* InternalNode and LeafNode: a node is a record                           *)
(*   lock, sibling_ptr, level, high_key, keys, vals                        *)
(* keys[i+1] is entry[i].key and vals[i+1] is entry[i].value; a leaf has   *)
(* cnt values, an internal node cnt+1 children.                            *)
(***************************************************************************)
\* first 0-based position whose key is >= key, else cnt
lowerbound_linear(n, key) ==
  LET hits == {i \in 1..cnt(n) : n.keys[i] >= key}
  IN IF hits = {} THEN cnt(n) ELSE Min(hits) - 1

InternalIsFull(n) == cnt(n) = InternalCardinality - 1
\* a test that reports a leaf as full one entry too late
LeafIsFullLate(n) == cnt(n) = LeafCardinality + 1
LeafIsFull(n) == cnt(n) = LeafCardinality

scan_node(n, key) ==
  IF n.sibling_ptr /= Null /\ n.high_key < key
  THEN n.sibling_ptr
  ELSE n.vals[lowerbound_linear(n, key) + 1]

\* an insert that leaves the new child to the left of its separator
InternalInsertUnswapped(n, key, value) ==
  LET pos == lowerbound_linear(n, key)
      movedVals == InsertAt(n.vals, pos, n.vals[pos + 1])
  IN [n EXCEPT !.keys = InsertAt(n.keys, pos, key),
               !.vals = [movedVals EXCEPT ![pos + 1] = value],
               !.high_key = IF key > n.high_key THEN key ELSE n.high_key]

\* InternalNode::insert: memmove, store (key, value) at pos, swap the values
\* of pos and pos + 1
InternalInsert(n, key, value) ==
  LET pos == lowerbound_linear(n, key)
      movedVals == InsertAt(n.vals, pos, n.vals[pos + 1])
      storedVals == [movedVals EXCEPT ![pos + 1] = value]
      swappedVals == [storedVals EXCEPT ![pos + 1] = storedVals[pos + 2],
                                        ![pos + 2] = storedVals[pos + 1]]
  IN [n EXCEPT !.keys = InsertAt(n.keys, pos, key),
               !.vals = swappedVals,
               !.high_key = IF key > n.high_key THEN key ELSE n.high_key]

\* a split that gives the left node its last key as high_key
InternalSplitLowHighKey(n, newptr) ==
  LET half == cnt(n) - (cnt(n) \div 2)
      new_cnt == cnt(n) - half - 1
  IN [split_key |-> n.keys[half + 1],
      right |-> [lock |-> 0, sibling_ptr |-> n.sibling_ptr, level |-> n.level,
                 high_key |-> n.high_key,
                 keys |-> SubSeq(n.keys, half + 2, half + 1 + new_cnt),
                 vals |-> SubSeq(n.vals, half + 2, half + 2 + new_cnt)],
      left |-> [n EXCEPT !.sibling_ptr = newptr,
                         !.high_key = n.keys[half],
                         !.keys = SubSeq(n.keys, 1, half),
                         !.vals = SubSeq(n.vals, 1, half + 1)]]

\* a split whose new node takes its children from entry[half] on
InternalSplitFromHalf(n, newptr) ==
  LET half == cnt(n) - (cnt(n) \div 2)
      new_cnt == cnt(n) - half - 1
  IN [split_key |-> n.keys[half + 1],
      right |-> [lock |-> 0, sibling_ptr |-> n.sibling_ptr, level |-> n.level,
                 high_key |-> n.high_key,
                 keys |-> SubSeq(n.keys, half + 2, half + 1 + new_cnt),
                 vals |-> SubSeq(n.vals, half + 1, half + 1 + new_cnt)],
      left |-> [n EXCEPT !.sibling_ptr = newptr,
                         !.high_key = n.keys[half + 1],
                         !.keys = SubSeq(n.keys, 1, half),
                         !.vals = SubSeq(n.vals, 1, half + 1)]]

\* InternalNode::split: [left, right, split_key]
InternalSplit(n, newptr) ==
  LET half == cnt(n) - (cnt(n) \div 2)
      new_cnt == cnt(n) - half - 1
      constructed == <<n.vals[half + 1]>>
      copied == Overlay(constructed, SubSeq(n.vals, half + 2, half + 2 + new_cnt))
  IN [split_key |-> n.keys[half + 1],
      right |-> [lock |-> 0, sibling_ptr |-> n.sibling_ptr, level |-> n.level,
                 high_key |-> n.high_key,
                 keys |-> SubSeq(n.keys, half + 2, half + 1 + new_cnt),
                 vals |-> copied],
      left |-> [n EXCEPT !.sibling_ptr = newptr,
                         !.high_key = n.keys[half + 1],
                         !.keys = SubSeq(n.keys, 1, half),
                         !.vals = SubSeq(n.vals, 1, half + 1)]]

\* a root that is constructed over its two children without the separator
NewRootWithoutKey(split_key, left, right, level, high_key) ==
  [lock |-> 0, sibling_ptr |-> Null, level |-> level, high_key |-> high_key,
   keys |-> <<>>, vals |-> <<left, right>>]

\* a root whose two children are stored in the wrong order
NewRootSwapped(split_key, left, right, level, high_key) ==
  [lock |-> 0, sibling_ptr |-> Null, level |-> level, high_key |-> high_key,
   keys |-> <<split_key>>, vals |-> <<right, left>>]

\* the root-growth constructor of InternalNode
NewRoot(split_key, left, right, level, high_key) ==
  [lock |-> 0, sibling_ptr |-> Null, level |-> level, high_key |-> high_key,
   keys |-> <<split_key>>, vals |-> <<left, right>>]

\* an insert that leaves high_key as it is
LeafInsertKeepsHighKey(n, key, value) ==
  LET pos == IF cnt(n) /= 0 THEN lowerbound_linear(n, key) ELSE 0
  IN [n EXCEPT !.keys = InsertAt(n.keys, pos, key),
               !.vals = InsertAt(n.vals, pos, value)]

\* an insert that does not look for the position of the key
LeafInsertAtFront(n, key, value) ==
  [n EXCEPT !.keys = InsertAt(n.keys, 0, key),
            !.vals = InsertAt(n.vals, 0, value),
            !.high_key = IF key > n.high_key THEN key ELSE n.high_key]

\* LeafNode::insert
LeafInsert(n, key, value) ==
  LET pos == IF cnt(n) /= 0 THEN lowerbound_linear(n, key) ELSE 0
  IN [n EXCEPT !.keys = InsertAt(n.keys, pos, key),
               !.vals = InsertAt(n.vals, pos, value),
               !.high_key = IF key > n.high_key THEN key ELSE n.high_key]

\* a split that does not make the new leaf the sibling of the old one
LeafSplitUnlinked(n, newptr) ==
  LET half == cnt(n) \div 2
      new_cnt == cnt(n) - half
  IN [split_key |-> n.keys[half],
      right |-> [lock |-> 0, sibling_ptr |-> n.sibling_ptr, level |-> n.level,
                 high_key |-> n.high_key,
                 keys |-> SubSeq(n.keys, half + 1, half + new_cnt),
                 vals |-> SubSeq(n.vals, half + 1, half + new_cnt)],
      left |-> [n EXCEPT !.high_key = n.keys[half],
                         !.keys = SubSeq(n.keys, 1, half),
                         !.vals = SubSeq(n.vals, 1, half)]]

\* a split that keeps all but one entry in the left half
LeafSplitUneven(n, newptr) ==
  LET half == cnt(n) - 1
      new_cnt == cnt(n) - half
  IN [split_key |-> n.keys[half],
      right |-> [lock |-> 0, sibling_ptr |-> n.sibling_ptr, level |-> n.level,
                 high_key |-> n.high_key,
                 keys |-> SubSeq(n.keys, half + 1, half + new_cnt),
                 vals |-> SubSeq(n.vals, half + 1, half + new_cnt)],
      left |-> [n EXCEPT !.sibling_ptr = newptr,
                         !.high_key = n.keys[half],
                         !.keys = SubSeq(n.keys, 1, half),
                         !.vals = SubSeq(n.vals, 1, half)]]

\* a split whose new leaf starts with the lock word of the old one
LeafSplitLocked(n, newptr) ==
  LET half == cnt(n) \div 2
      new_cnt == cnt(n) - half
  IN [split_key |-> n.keys[half],
      right |-> [lock |-> n.lock, sibling_ptr |-> n.sibling_ptr,
                 level |-> n.level, high_key |-> n.high_key,
                 keys |-> SubSeq(n.keys, half + 1, half + new_cnt),
                 vals |-> SubSeq(n.vals, half + 1, half + new_cnt)],
      left |-> [n EXCEPT !.sibling_ptr = newptr,
                         !.high_key = n.keys[half],
                         !.keys = SubSeq(n.keys, 1, half),
                         !.vals = SubSeq(n.vals, 1, half)]]

\* LeafNode::split: [left, right, split_key]
LeafSplit(n, newptr) ==
  LET half == cnt(n) \div 2
      new_cnt == cnt(n) - half
  IN [split_key |-> n.keys[half],
      right |-> [lock |-> 0, sibling_ptr |-> n.sibling_ptr, level |-> n.level,
                 high_key |-> n.high_key,
                 keys |-> SubSeq(n.keys, half + 1, half + new_cnt),
                 vals |-> SubSeq(n.vals, half + 1, half + new_cnt)],
      left |-> [n EXCEPT !.sibling_ptr = newptr,
                         !.high_key = n.keys[half],
                         !.keys = SubSeq(n.keys, 1, half),
                         !.vals = SubSeq(n.vals, 1, half)]]

\* a search that settles for the first entry whose key is not smaller
find_pos_lowerbound(n, key) ==
  IF lowerbound_linear(n, key) = cnt(n) THEN -1 ELSE lowerbound_linear(n, key)

\* 0-based position of the first entry with this key, else -1
find_pos_linear(n, key) ==
  LET hits == {i \in 1..cnt(n) : n.keys[i] = key}
  IN IF hits = {} THEN -1 ELSE Min(hits) - 1

find_linear(n, key) ==
  LET pos == find_pos_linear(n, key)
  IN IF pos = -1 THEN 0 ELSE n.vals[pos + 1]

\* an update that reports the key but does not store the value
update_linear_lost(n, key, value) ==
  [node |-> n, ret |-> find_pos_linear(n, key) /= -1]

\* LeafNode::update_linear: [node, ret]
update_linear(n, key, value) ==
  LET pos == find_pos_linear(n, key)
  IN IF pos = -1 THEN [node |-> n, ret |-> FALSE]
     ELSE [node |-> [n EXCEPT !.vals[pos + 1] = value], ret |-> TRUE]

\* a remove that closes the gap in the keys but drops the last value
LeafRemoveLastValue(n, key) ==
  LET pos == IF cnt(n) /= 0 THEN find_pos_linear(n, key) ELSE -1
  IN IF pos = -1 THEN [node |-> n, ret |-> FALSE]
     ELSE [node |-> [n EXCEPT !.keys = RemoveAt(n.keys, pos),
                              !.vals = RemoveAt(n.vals, cnt(n) - 1)],
           ret |-> TRUE]

\* a remove that lowers high_key to the largest key that is left
LeafRemoveLowersHighKey(n, key) ==
  LET pos == IF cnt(n) /= 0 THEN find_pos_linear(n, key) ELSE -1
      keys == RemoveAt(n.keys, pos)
  IN IF pos = -1 THEN [node |-> n, ret |-> FALSE]
     ELSE [node |-> [n EXCEPT !.keys = keys,
                              !.vals = RemoveAt(n.vals, pos),
                              !.high_key = IF keys = <<>> THEN 0
                                           ELSE keys[Len(keys)]],
           ret |-> TRUE]

\* LeafNode::remove: [node, ret]
LeafRemove(n, key) ==
  LET pos == IF cnt(n) /= 0 THEN find_pos_linear(n, key) ELSE -1
  IN IF pos = -1 THEN [node |-> n, ret |-> FALSE]
     ELSE [node |-> [n EXCEPT !.keys = RemoveAt(n.keys, pos),
                              !.vals = RemoveAt(n.vals, pos)],
           ret |-> TRUE]

\* LeafNode::range_lookup(idx, buf, count, range): the values of entry[idx..cnt)
\* are written to buf[count..) until buf holds range values; [buf, ret]
range_collect(n, idx, buf, count, range) ==
  LET avail == SubSeq(n.vals, idx + 1, cnt(n))
      take == IF Len(avail) <= range - count THEN Len(avail) ELSE range - count
      kept == SubSeq(buf, 1, count)
      tail == SubSeq(buf, count + take + 1, Len(buf))
  IN [buf |-> kept \o SubSeq(avail, 1, take) \o tail, ret |-> count + take]

(***************************************************************************)
(* Operations, thread locals, and the map the operations are compared to.  *)
(***************************************************************************)
Op(kind, key, value, range) ==
  [kind |-> kind, key |-> key, value |-> value, range |-> range]
Insert(k, v) == Op("insert", k, v, 0)
Update(k, v) == Op("update", k, v, 0)
Lookup(k) == Op("lookup", k, 0, 0)
Remove(k) == Op("remove", k, 0, 0)
RangeLookup(k, n) == Op("range_lookup", k, 0, n)
Height == Op("height", 0, 0, 0)
NoOp == Op("none", 0, 0, 0)

\* the locals of a thread that is in no operation
Idle ==
  [pc |-> "idle", op |-> NoOp, stack |-> <<>>,
   cur |-> Null, cur_vstart |-> 0, child |-> Null, child_vstart |-> 0,
   leaf |-> Null, leaf_vstart |-> 0, sibling |-> Null, sibling_vstart |-> 0,
   stack_idx |-> 0, parent |-> Null, parent_vstart |-> 0,
   left_node |-> Null, right_node |-> Null, split_key |-> 0,
   count |-> 0, idx |-> 0, buf |-> <<>>, ret |-> 0,
   held |-> {}, pending |-> FALSE, pendingU |-> FALSE,
   lin |-> 0, linU |-> 0, known |-> 0, quiet |-> TRUE, alone |-> TRUE,
   before |-> {}, stored |-> {}, transient |-> FALSE, wild |-> FALSE]

\* a map is a set of <<key, value>> pairs with one pair per key
Get(m, k) == IF \E p \in m : p[1] = k THEN (CHOOSE p \in m : p[1] = k)[2] ELSE 0
Put(m, k, v) == {p \in m : p[1] /= k} \cup {<<k, v>>}
Del(m, k) == {p \in m : p[1] /= k}

\* what a sequential map answers to op, as a number (TRUE is 1, FALSE is 0)
B2N(b) == IF b THEN 1 ELSE 0
SortedKeys(S) ==
  LET RECURSIVE Srt(_)
      Srt(R) == IF R = {} THEN <<>> ELSE <<Min(R)>> \o Srt(R \ {Min(R)})
  IN Srt(S)
RangeOf(m, a, n) ==
  LET ks == SortedKeys({p[1] : p \in {q \in m : q[1] >= a}})
      c == IF Len(ks) <= n THEN Len(ks) ELSE n
  IN [i \in 1..c |-> Get(m, ks[i])]
Answer(m, op) ==
  CASE op.kind = "lookup" -> Get(m, op.key)
    [] op.kind = "update" -> B2N(Get(m, op.key) /= 0)
    [] op.kind = "remove" -> B2N(Get(m, op.key) /= 0)
    [] op.kind = "range_lookup" -> Len(RangeOf(m, op.key, op.range))
    [] OTHER -> 0
\* the map after op took effect
Effect(m, op) ==
  CASE op.kind = "insert" -> Put(m, op.key, op.value)
    [] op.kind = "update" ->
         IF Get(m, op.key) /= 0 THEN Put(m, op.key, op.value) ELSE m
    [] op.kind = "remove" -> Del(m, op.key)
    [] OTHER -> m

\* the state of thread t, and the step that changes only it
Me(t) == th[t]
Only(t, r) == th' = [th EXCEPT ![t] = r]
Ghosts == <<script, free, gate, abs, absU, seen, called, removed>>
Maps == <<abs, absU>>
Work == <<script, free, gate, seen, called, removed>>

\* goto restart of a public operation: every local is declared anew
Restart(t) == [Idle EXCEPT !.pc = "t_root", !.op = Me(t).op, !.buf = Me(t).buf,
                           !.known = Me(t).known, !.quiet = Me(t).quiet,
                           !.alone = Me(t).alone, !.before = Me(t).before,
                           !.stored = Me(t).stored]
\* goto restart of update_splitted_root: its parameters and the lock stay
URestart(t) == [Me(t) EXCEPT !.pc = "u_root", !.cur = Null, !.cur_vstart = 0,
                             !.child = Null, !.child_vstart = 0,
                             !.sibling = Null, !.sibling_vstart = 0]

(***************************************************************************)
(* BLinkTree::traverse_to_leafnode                                         *)
(***************************************************************************)
\* auto cur = root; stacks.clear()
LoadRoot(t) ==
  /\ Me(t).pc = "t_root"
  /\ Only(t, [Me(t) EXCEPT !.pc = "t_rlock", !.cur = root, !.stack = <<>>])
  /\ UNCHANGED <<heap, root, Ghosts>>

\* cur->try_readlock(need_restart); then the test of while (cur->level != 0)
ReadLockCur(t) ==
  /\ Me(t).pc = "t_rlock"
  /\ LET version == heap[Me(t).cur].lock
     IN IF need_restart(version)
        THEN Only(t, Restart(t))
        ELSE Only(t, [Me(t) EXCEPT
               !.pc = IF heap[Me(t).cur].level /= 0 THEN "t_scan" ELSE "l_check",
               !.cur_vstart = version])
  /\ UNCHANGED <<heap, root, Ghosts>>

\* child = cur->scan_node(key)
ScanNode(t) ==
  /\ Me(t).pc = "t_scan"
  /\ Only(t, [Me(t) EXCEPT !.pc = "t_clock",
                           !.child = scan_node(heap[Me(t).cur], Me(t).op.key)])
  /\ UNCHANGED <<heap, root, Ghosts>>

\* child->try_readlock(need_restart)
ReadLockChild(t) ==
  /\ Me(t).pc = "t_clock"
  /\ LET version == heap[Me(t).child].lock
     IN IF need_restart(version)
        THEN Only(t, Restart(t))
        ELSE Only(t, [Me(t) EXCEPT !.pc = "t_val", !.child_vstart = version])
  /\ UNCHANGED <<heap, root, Ghosts>>

\* cur->get_version(need_restart); restart unless it is cur_vstart
ValidateCur(t) ==
  /\ Me(t).pc = "t_val"
  /\ LET version == heap[Me(t).cur].lock
     IN IF need_restart(version) \/ Me(t).cur_vstart /= version
        THEN Only(t, Restart(t))
        ELSE Only(t, [Me(t) EXCEPT !.pc = "t_push"])
  /\ UNCHANGED <<heap, root, Ghosts>>

\* if (child != cur->sibling_ptr) stacks.push_back(cur); cur = child
PushStack(t) ==
  /\ Me(t).pc = "t_push"
  /\ Only(t, [Me(t) EXCEPT
       !.pc = IF heap[Me(t).child].level /= 0 THEN "t_scan" ELSE "l_check",
       !.stack = IF Me(t).child /= heap[Me(t).cur].sibling_ptr
                 THEN Append(Me(t).stack, Me(t).cur) ELSE Me(t).stack,
       !.cur = Me(t).child, !.cur_vstart = Me(t).child_vstart,
       !.child = Null, !.child_vstart = 0])
  /\ UNCHANGED <<heap, root, Ghosts>>

\* the pc of the operation once traverse_to_leafnode has returned
AfterTraverse(op) ==
  CASE op.kind = "lookup" -> "k_find"
    [] op.kind = "range_lookup" -> "r_idx"
    [] OTHER -> "upg"

\* a traversal that stops at the leaf the parent named
LeafCheckNoMoveRight(t) ==
  /\ Me(t).pc = "l_check"
  /\ Only(t, [Me(t) EXCEPT !.pc = AfterTraverse(Me(t).op),
                           !.leaf = Me(t).cur,
                           !.leaf_vstart = Me(t).cur_vstart,
                           !.cur = Null, !.cur_vstart = 0])
  /\ UNCHANGED <<heap, root, Ghosts>>

\* while (leaf->sibling_ptr && (leaf->high_key < key)); the leaf is cur
LeafCheck(t) ==
  /\ Me(t).pc = "l_check"
  /\ LET leaf == heap[Me(t).cur]
     IN IF leaf.sibling_ptr /= Null /\ leaf.high_key < Me(t).op.key
        THEN Only(t, [Me(t) EXCEPT !.pc = "l_slock", !.sibling = leaf.sibling_ptr])
        ELSE Only(t, [Me(t) EXCEPT !.pc = AfterTraverse(Me(t).op),
                                   !.leaf = Me(t).cur,
                                   !.leaf_vstart = Me(t).cur_vstart,
                                   !.cur = Null, !.cur_vstart = 0])
  /\ UNCHANGED <<heap, root, Ghosts>>

\* sibling->try_readlock(need_restart)
ReadLockSibling(t) ==
  /\ Me(t).pc = "l_slock"
  /\ LET version == heap[Me(t).sibling].lock
     IN IF need_restart(version)
        THEN Only(t, Restart(t))
        ELSE Only(t, [Me(t) EXCEPT !.pc = "l_val", !.sibling_vstart = version])
  /\ UNCHANGED <<heap, root, Ghosts>>

\* leaf->get_version(need_restart); leaf = sibling
ValidateLeaf(t) ==
  /\ Me(t).pc = "l_val"
  /\ LET version == heap[Me(t).cur].lock
     IN IF need_restart(version) \/ Me(t).cur_vstart /= version
        THEN Only(t, Restart(t))
        ELSE Only(t, [Me(t) EXCEPT !.pc = "l_check",
                                   !.cur = Me(t).sibling,
                                   !.cur_vstart = Me(t).sibling_vstart,
                                   !.sibling = Null, !.sibling_vstart = 0])
  /\ UNCHANGED <<heap, root, Ghosts>>

(***************************************************************************)
(* The write lock, and the moment an operation takes effect on the map.    *)
(***************************************************************************)
\* an unlock that is executed twice
write_unlock_twice(n) == [n EXCEPT !.lock = n.lock + 4]

\* Node::write_unlock
write_unlock(n) == [n EXCEPT !.lock = n.lock + 2]

\* an upgrade that does not compare the lock word with the token
UpgradeUnchecked(n, version) == TRUE

\* try_upgrade_writelock succeeds iff the lock word still is the token
UpgradeOk(n, version) == n.lock = version
Upgraded(n) == [n EXCEPT !.lock = n.lock + 2]

\* the write_unlock of the leaf publishes what the operation did
PublishMaps(t) ==
  /\ abs' = IF Me(t).pending THEN Effect(abs, Me(t).op) ELSE abs
  /\ absU' = IF Me(t).pendingU THEN Effect(absU, Me(t).op) ELSE absU
Published(t, r) ==
  [r EXCEPT !.pending = FALSE, !.pendingU = FALSE,
            !.lin = IF Me(t).pending THEN Answer(abs, Me(t).op) ELSE r.lin,
            !.linU = IF Me(t).pendingU THEN Answer(absU, Me(t).op) ELSE r.linU]

(***************************************************************************)
(* BLinkTree::insert, update, remove: the leaf                             *)
(***************************************************************************)
\* leaf->try_upgrade_writelock(leaf_vstart, need_restart)
UpgradeLeaf(t) ==
  /\ Me(t).pc = "upg"
  /\ IF UpgradeOk(heap[Me(t).leaf], Me(t).leaf_vstart)
     THEN /\ heap' = [heap EXCEPT ![Me(t).leaf] = Upgraded(@)]
          /\ Only(t, [Me(t) EXCEPT
               !.pc = CASE Me(t).op.kind = "insert" -> "i_apply"
                        [] Me(t).op.kind = "update" -> "w_upd"
                        [] OTHER -> "d_rem",
               !.held = @ \cup {Me(t).leaf},
               !.pending = TRUE, !.pendingU = TRUE])
     ELSE /\ Only(t, Restart(t))
          /\ UNCHANGED heap
  /\ UNCHANGED <<root, Ghosts>>

\* if (!leaf->is_full()) leaf->insert(key, value); else the first lines of
\* backtrack_insertion_split_key: leaf->split, then insert into one half
InsertLeaf(t) ==
  /\ Me(t).pc = "i_apply"
  /\ LET leaf == heap[Me(t).leaf]
         key == Me(t).op.key
         value == Me(t).op.value
         newptr == Len(heap) + 1
         s == LeafSplit(leaf, newptr)
     IN IF ~LeafIsFull(leaf)
        THEN /\ heap' = [heap EXCEPT ![Me(t).leaf] = LeafInsert(leaf, key, value)]
             /\ Only(t, [Me(t) EXCEPT !.pc = "leaf_unl"])
        ELSE /\ heap' = Append(
                  [heap EXCEPT ![Me(t).leaf] =
                     IF key <= s.split_key THEN LeafInsert(s.left, key, value)
                     ELSE s.left],
                  IF key <= s.split_key THEN s.right
                  ELSE LeafInsert(s.right, key, value))
             /\ Only(t, [Me(t) EXCEPT !.pc = "i_grow", !.split_key = s.split_key,
                                      !.left_node = Me(t).leaf,
                                      !.right_node = newptr])
  /\ UNCHANGED <<root, Ghosts>>

\* a writer that unlocks the split leaf before it turns to the parent
AfterLeafSplitUnlocked(t) ==
  /\ Me(t).pc = "i_grow"
  /\ IF Me(t).stack = <<>>
     THEN /\ Only(t, [Me(t) EXCEPT !.pc = IF Me(t).leaf = root THEN "i_root"
                                          ELSE "u_root"])
          /\ UNCHANGED heap
     ELSE /\ Only(t, [Me(t) EXCEPT !.pc = "b_plock",
                                   !.held = @ \ {Me(t).leaf},
                                   !.stack_idx = Len(Me(t).stack),
                                   !.parent = Me(t).stack[Len(Me(t).stack)]])
          /\ heap' = [heap EXCEPT ![Me(t).leaf] = write_unlock(@)]
  /\ UNCHANGED <<root, Ghosts>>

\* if (stack.empty()) { if (leaf == root) ...; else
\* update_splitted_root(split_key, new_leaf, leaf); } else parent = stack.back()
AfterLeafSplit(t) ==
  /\ Me(t).pc = "i_grow"
  /\ IF Me(t).stack = <<>>
     THEN Only(t, [Me(t) EXCEPT !.pc = IF Me(t).leaf = root THEN "i_root"
                                       ELSE "u_root"])
     ELSE Only(t, [Me(t) EXCEPT !.pc = "b_plock",
                                !.stack_idx = Len(Me(t).stack),
                                !.parent = Me(t).stack[Len(Me(t).stack)]])
  /\ UNCHANGED <<heap, root, Ghosts>>

\* auto new_root = new InternalNode(split_key, leaf, new_leaf, nullptr,
\* leaf->level + 1, new_leaf->high_key); root = new_root
LeafNewRoot(t) ==
  /\ Me(t).pc = "i_root"
  /\ heap' = Append(heap,
       NewRoot(Me(t).split_key, Me(t).leaf, Me(t).right_node,
               heap[Me(t).leaf].level + 1, heap[Me(t).right_node].high_key))
  /\ root' = Len(heap) + 1
  /\ abs' = Effect(abs, Me(t).op)
  /\ Only(t, [Me(t) EXCEPT !.pc = "leaf_unl", !.pending = FALSE])
  /\ UNCHANGED <<absU, Work>>

\* bool ret = leaf->update(key, value)
UpdateLeaf(t) ==
  /\ Me(t).pc = "w_upd"
  /\ LET r == update_linear(heap[Me(t).leaf], Me(t).op.key, Me(t).op.value)
     IN /\ heap' = [heap EXCEPT ![Me(t).leaf] = r.node]
        /\ Only(t, [Me(t) EXCEPT !.pc = "leaf_unl", !.ret = B2N(r.ret)])
  /\ UNCHANGED <<root, Ghosts>>

\* auto ret = leaf->remove(key)
RemoveLeaf(t) ==
  /\ Me(t).pc = "d_rem"
  /\ LET r == LeafRemove(heap[Me(t).leaf], Me(t).op.key)
     IN /\ heap' = [heap EXCEPT ![Me(t).leaf] = r.node]
        /\ Only(t, [Me(t) EXCEPT !.pc = "leaf_unl", !.ret = B2N(r.ret)])
  /\ UNCHANGED <<root, Ghosts>>

\* leaf->write_unlock(); return
LeafUnlock(t) ==
  /\ Me(t).pc = "leaf_unl"
  /\ heap' = [heap EXCEPT ![Me(t).leaf] = write_unlock(@)]
  /\ PublishMaps(t)
  /\ Only(t, Published(t, [Me(t) EXCEPT !.pc = "ret",
                                        !.held = @ \ {Me(t).leaf}]))
  /\ UNCHANGED <<root, Work>>

(***************************************************************************)
(* BLinkTree::backtrack_insertion_split_key: the loop over the stack       *)
(***************************************************************************)
\* parent_restart: parent->try_readlock(need_restart)
ParentReadLock(t) ==
  /\ Me(t).pc = "b_plock"
  /\ LET version == heap[Me(t).parent].lock
     IN IF need_restart(version)
        THEN Only(t, Me(t))
        ELSE Only(t, [Me(t) EXCEPT !.pc = "b_chase", !.parent_vstart = version])
  /\ UNCHANGED <<heap, root, Ghosts>>

\* a writer that inserts into the node it took from the stack
ParentChaseStays(t) ==
  /\ Me(t).pc = "b_chase"
  /\ Only(t, [Me(t) EXCEPT !.pc = "b_upg"])
  /\ UNCHANGED <<heap, root, Ghosts>>

\* while (parent->sibling_ptr && (parent->high_key < split_key))
ParentChase(t) ==
  /\ Me(t).pc = "b_chase"
  /\ LET parent == heap[Me(t).parent]
     IN IF parent.sibling_ptr /= Null /\ parent.high_key < Me(t).split_key
        THEN Only(t, [Me(t) EXCEPT !.pc = "b_slock",
                                   !.sibling = parent.sibling_ptr])
        ELSE Only(t, [Me(t) EXCEPT !.pc = "b_upg"])
  /\ UNCHANGED <<heap, root, Ghosts>>

\* p_sibling->try_readlock(need_restart)
ParentSiblingReadLock(t) ==
  /\ Me(t).pc = "b_slock"
  /\ LET version == heap[Me(t).sibling].lock
     IN IF need_restart(version)
        THEN Only(t, [Me(t) EXCEPT !.pc = "b_plock", !.sibling = Null])
        ELSE Only(t, [Me(t) EXCEPT !.pc = "b_val", !.sibling_vstart = version])
  /\ UNCHANGED <<heap, root, Ghosts>>

\* parent->get_version(need_restart); parent = p_sibling
ParentValidate(t) ==
  /\ Me(t).pc = "b_val"
  /\ LET version == heap[Me(t).parent].lock
     IN IF need_restart(version) \/ Me(t).parent_vstart /= version
        THEN Only(t, [Me(t) EXCEPT !.pc = "b_plock", !.sibling = Null,
                                   !.sibling_vstart = 0])
        ELSE Only(t, [Me(t) EXCEPT !.pc = "b_chase",
                                   !.parent = Me(t).sibling,
                                   !.parent_vstart = Me(t).sibling_vstart,
                                   !.sibling = Null, !.sibling_vstart = 0])
  /\ UNCHANGED <<heap, root, Ghosts>>

\* parent->try_upgrade_writelock(parent_vstart, need_restart)
ParentUpgrade(t) ==
  /\ Me(t).pc = "b_upg"
  /\ IF UpgradeOk(heap[Me(t).parent], Me(t).parent_vstart)
     THEN /\ heap' = [heap EXCEPT ![Me(t).parent] = Upgraded(@)]
          /\ Only(t, [Me(t) EXCEPT !.pc = "b_unl",
                                   !.held = @ \cup {Me(t).parent}])
     ELSE /\ Only(t, [Me(t) EXCEPT !.pc = "b_plock"])
          /\ UNCHANGED heap
  /\ UNCHANGED <<root, Ghosts>>

\* a writer that keeps the lock of the left half while it works on the parent
UnlockLeftKept(t) ==
  /\ Me(t).pc = "b_unl"
  /\ PublishMaps(t)
  /\ Only(t, Published(t, [Me(t) EXCEPT !.pc = "b_ins"]))
  /\ UNCHANGED <<heap, root, Work>>

\* left_node->write_unlock()
UnlockLeft(t) ==
  /\ Me(t).pc = "b_unl"
  /\ heap' = [heap EXCEPT ![Me(t).left_node] = write_unlock(@)]
  /\ PublishMaps(t)
  /\ Only(t, Published(t, [Me(t) EXCEPT !.pc = "b_ins",
                                        !.held = @ \ {Me(t).left_node}]))
  /\ UNCHANGED <<root, Work>>

\* if (!parent->is_full()) parent->insert(split_key, right_node); else
\* parent->split(split_key), insert into one half, and step up the stack
ParentInsert(t) ==
  /\ Me(t).pc = "b_ins"
  /\ LET parent == heap[Me(t).parent]
         insert_key == Me(t).split_key
         newptr == Len(heap) + 1
         s == InternalSplit(parent, newptr)
     IN IF ~InternalIsFull(parent)
        THEN /\ heap' = [heap EXCEPT ![Me(t).parent] =
                           InternalInsert(parent, insert_key, Me(t).right_node)]
             /\ Only(t, [Me(t) EXCEPT !.pc = "b_punl"])
        ELSE /\ heap' = Append(
                  [heap EXCEPT ![Me(t).parent] =
                     IF insert_key < s.split_key
                     THEN InternalInsert(s.left, insert_key, Me(t).right_node)
                     ELSE s.left],
                  IF insert_key < s.split_key THEN s.right
                  ELSE InternalInsert(s.right, insert_key, Me(t).right_node))
             /\ Only(t, [Me(t) EXCEPT
                  !.pc = IF Me(t).stack_idx > 1 THEN "b_plock" ELSE "b_grow",
                  !.left_node = Me(t).parent, !.right_node = newptr,
                  !.split_key = s.split_key,
                  !.stack_idx = IF Me(t).stack_idx > 1 THEN @ - 1 ELSE @,
                  !.parent = IF Me(t).stack_idx > 1
                             THEN Me(t).stack[Me(t).stack_idx - 1] ELSE @,
                  !.parent_vstart = 0])
  /\ UNCHANGED <<root, Ghosts>>

\* the stack is used up: if (parent == root) ...; else
\* update_splitted_root(split_key, right_node, left_node)
ParentGrow(t) ==
  /\ Me(t).pc = "b_grow"
  /\ IF Me(t).parent = root
     THEN Only(t, [Me(t) EXCEPT !.pc = "b_root"])
     ELSE Only(t, [Me(t) EXCEPT !.pc = "u_root", !.parent = Null])
  /\ UNCHANGED <<heap, root, Ghosts>>

\* auto new_root = new InternalNode(split_key, left_node, right_node, nullptr,
\* parent->level + 1, right_node->high_key); root = new_root
ParentNewRoot(t) ==
  /\ Me(t).pc = "b_root"
  /\ heap' = Append(heap,
       NewRoot(Me(t).split_key, Me(t).left_node, Me(t).right_node,
               heap[Me(t).parent].level + 1, heap[Me(t).right_node].high_key))
  /\ root' = Len(heap) + 1
  /\ Only(t, [Me(t) EXCEPT !.pc = "b_punl"])
  /\ UNCHANGED Ghosts

\* parent->write_unlock(); return
ParentUnlock(t) ==
  /\ Me(t).pc = "b_punl"
  /\ heap' = [heap EXCEPT ![Me(t).parent] = write_unlock(@)]
  /\ Only(t, [Me(t) EXCEPT !.pc = "ret", !.held = @ \ {Me(t).parent}])
  /\ UNCHANGED <<root, Ghosts>>

(***************************************************************************)
(* BLinkTree::update_splitted_root(key, value, prev): the parameters are   *)
(* the locals split_key, right_node and left_node of the caller.           *)
(***************************************************************************)
\* restart: auto cur = root
ULoadRoot(t) ==
  /\ Me(t).pc = "u_root"
  /\ Only(t, [Me(t) EXCEPT !.pc = "u_rlock", !.cur = root])
  /\ UNCHANGED <<heap, root, Ghosts>>

\* a descent that goes down to the level of prev
ULevelTestSameLevel(t, ptr) ==
  IF heap[ptr].level /= heap[Me(t).left_node].level THEN "u_scan" ELSE "u_chase"

\* the pc after the test of while (cur->level != prev->level + 1)
ULevelTest(t, ptr) ==
  IF heap[ptr].level /= heap[Me(t).left_node].level + 1 THEN "u_scan" ELSE "u_chase"

\* cur->try_readlock(need_restart)
UReadLockCur(t) ==
  /\ Me(t).pc = "u_rlock"
  /\ LET version == heap[Me(t).cur].lock
     IN IF need_restart(version)
        THEN Only(t, URestart(t))
        ELSE Only(t, [Me(t) EXCEPT !.pc = ULevelTest(t, Me(t).cur),
                                   !.cur_vstart = version])
  /\ UNCHANGED <<heap, root, Ghosts>>

\* child = cur->scan_node(key); on a leaf it reads an entry as a child pointer
UScanNode(t) ==
  /\ Me(t).pc = "u_scan"
  /\ IF heap[Me(t).cur].level = 0
     THEN Only(t, [Me(t) EXCEPT !.pc = "wild", !.wild = TRUE])
     ELSE Only(t, [Me(t) EXCEPT !.pc = "u_clock",
                     !.child = scan_node(heap[Me(t).cur], Me(t).split_key)])
  /\ UNCHANGED <<heap, root, Ghosts>>

\* child->try_readlock(need_restart)
UReadLockChild(t) ==
  /\ Me(t).pc = "u_clock"
  /\ LET version == heap[Me(t).child].lock
     IN IF need_restart(version)
        THEN Only(t, URestart(t))
        ELSE Only(t, [Me(t) EXCEPT !.pc = "u_val", !.child_vstart = version])
  /\ UNCHANGED <<heap, root, Ghosts>>

\* cur->get_version(need_restart); cur = child
UValidateCur(t) ==
  /\ Me(t).pc = "u_val"
  /\ LET version == heap[Me(t).cur].lock
     IN IF need_restart(version) \/ Me(t).cur_vstart /= version
        THEN Only(t, URestart(t))
        ELSE Only(t, [Me(t) EXCEPT !.pc = ULevelTest(t, Me(t).child),
                                   !.cur = Me(t).child,
                                   !.cur_vstart = Me(t).child_vstart,
                                   !.child = Null, !.child_vstart = 0])
  /\ UNCHANGED <<heap, root, Ghosts>>

\* while (cur->sibling_ptr && (cur->high_key < key))
UChase(t) ==
  /\ Me(t).pc = "u_chase"
  /\ LET cur == heap[Me(t).cur]
     IN IF cur.sibling_ptr /= Null /\ cur.high_key < Me(t).split_key
        THEN Only(t, [Me(t) EXCEPT !.pc = "u_slock", !.sibling = cur.sibling_ptr])
        ELSE Only(t, [Me(t) EXCEPT !.pc = "u_upg"])
  /\ UNCHANGED <<heap, root, Ghosts>>

\* sibling->try_readlock(need_restart)
UReadLockSibling(t) ==
  /\ Me(t).pc = "u_slock"
  /\ LET version == heap[Me(t).sibling].lock
     IN IF need_restart(version)
        THEN Only(t, URestart(t))
        ELSE Only(t, [Me(t) EXCEPT !.pc = "u_sval", !.sibling_vstart = version])
  /\ UNCHANGED <<heap, root, Ghosts>>

\* cur->get_version(need_restart); cur = sibling
UValidateSibling(t) ==
  /\ Me(t).pc = "u_sval"
  /\ LET version == heap[Me(t).cur].lock
     IN IF need_restart(version) \/ Me(t).cur_vstart /= version
        THEN Only(t, URestart(t))
        ELSE Only(t, [Me(t) EXCEPT !.pc = "u_chase",
                                   !.cur = Me(t).sibling,
                                   !.cur_vstart = Me(t).sibling_vstart,
                                   !.sibling = Null, !.sibling_vstart = 0])
  /\ UNCHANGED <<heap, root, Ghosts>>

\* cur->try_upgrade_writelock(cur_vstart, need_restart)
UUpgrade(t) ==
  /\ Me(t).pc = "u_upg"
  /\ IF UpgradeOk(heap[Me(t).cur], Me(t).cur_vstart)
     THEN /\ heap' = [heap EXCEPT ![Me(t).cur] = Upgraded(@)]
          /\ Only(t, [Me(t) EXCEPT !.pc = "u_unl", !.held = @ \cup {Me(t).cur}])
     ELSE /\ Only(t, URestart(t))
          /\ UNCHANGED heap
  /\ UNCHANGED <<root, Ghosts>>

\* prev->write_unlock()
UUnlockPrev(t) ==
  /\ Me(t).pc = "u_unl"
  /\ heap' = [heap EXCEPT ![Me(t).left_node] = write_unlock(@)]
  /\ PublishMaps(t)
  /\ Only(t, Published(t, [Me(t) EXCEPT !.pc = "u_ins",
                                        !.held = @ \ {Me(t).left_node}]))
  /\ UNCHANGED <<root, Work>>

\* if (!node->is_full()) node->insert(key, value); else node->split(split_key)
\* and insert into one half
UInsert(t) ==
  /\ Me(t).pc = "u_ins"
  /\ LET node == heap[Me(t).cur]
         key == Me(t).split_key
         newptr == Len(heap) + 1
         s == InternalSplit(node, newptr)
     IN IF ~InternalIsFull(node)
        THEN /\ heap' = [heap EXCEPT ![Me(t).cur] =
                           InternalInsert(node, key, Me(t).right_node)]
             /\ Only(t, [Me(t) EXCEPT !.pc = "u_nunl"])
        ELSE /\ heap' = Append(
                  [heap EXCEPT ![Me(t).cur] =
                     IF key <= s.split_key
                     THEN InternalInsert(s.left, key, Me(t).right_node)
                     ELSE s.left],
                  IF key <= s.split_key THEN s.right
                  ELSE InternalInsert(s.right, key, Me(t).right_node))
             /\ Only(t, [Me(t) EXCEPT !.pc = "u_grow",
                                      !.left_node = Me(t).cur,
                                      !.right_node = newptr,
                                      !.split_key = s.split_key])
  /\ UNCHANGED <<root, Ghosts>>

\* if (node == root) ...; else update_splitted_root(split_key, new_node, node)
UGrow(t) ==
  /\ Me(t).pc = "u_grow"
  /\ IF Me(t).cur = root
     THEN Only(t, [Me(t) EXCEPT !.pc = "u_newroot"])
     ELSE Only(t, URestart(t))
  /\ UNCHANGED <<heap, root, Ghosts>>

\* auto new_root = new InternalNode(split_key, node, new_node, nullptr,
\* node->level + 1, new_node->high_key); root = new_root
UNewRoot(t) ==
  /\ Me(t).pc = "u_newroot"
  /\ heap' = Append(heap,
       NewRoot(Me(t).split_key, Me(t).cur, Me(t).right_node,
               heap[Me(t).cur].level + 1, heap[Me(t).right_node].high_key))
  /\ root' = Len(heap) + 1
  /\ Only(t, [Me(t) EXCEPT !.pc = "u_nunl"])
  /\ UNCHANGED Ghosts

\* node->write_unlock(); return
UNodeUnlock(t) ==
  /\ Me(t).pc = "u_nunl"
  /\ heap' = [heap EXCEPT ![Me(t).cur] = write_unlock(@)]
  /\ Only(t, [Me(t) EXCEPT !.pc = "ret", !.held = @ \ {Me(t).cur}])
  /\ UNCHANGED <<root, Ghosts>>

(***************************************************************************)
(* BLinkTree::lookup                                                       *)
(***************************************************************************)
\* some other thread has split ptr (as the left or the right half) and has
\* not yet put the separator into the parent
Unrouted(t, ptr) ==
  \E u \in Threads \ {t} :
    /\ Me(u).pc \in {"b_plock", "b_chase", "b_slock", "b_val", "b_upg", "b_unl",
                     "b_ins", "u_root", "u_rlock", "u_scan", "u_clock", "u_val",
                     "u_chase", "u_slock", "u_sval", "u_upg", "u_unl", "u_ins"}
    /\ ptr \in {Me(u).left_node, Me(u).right_node}

\* auto ret = leaf->find(key)
Find(t) ==
  /\ Me(t).pc = "k_find"
  /\ Only(t, [Me(t) EXCEPT !.pc = "k_val",
                           !.ret = find_linear(heap[Me(t).leaf], Me(t).op.key)])
  /\ UNCHANGED <<heap, root, Ghosts>>

\* a lookup that returns what it read without the final validation
ValidateFoundUnchecked(t) ==
  /\ Me(t).pc = "k_val"
  /\ Only(t, [Me(t) EXCEPT !.pc = "ret",
                           !.lin = Answer(abs, Me(t).op),
                           !.linU = Answer(absU, Me(t).op),
                           !.transient = Unrouted(t, Me(t).leaf)])
  /\ UNCHANGED <<heap, root, Ghosts>>

\* leaf->get_version(need_restart); restart unless it is leaf_vstart
ValidateFound(t) ==
  /\ Me(t).pc = "k_val"
  /\ LET version == heap[Me(t).leaf].lock
     IN IF need_restart(version) \/ Me(t).leaf_vstart /= version
        THEN Only(t, Restart(t))
        ELSE Only(t, [Me(t) EXCEPT !.pc = "ret",
                                   !.lin = Answer(abs, Me(t).op),
                                   !.linU = Answer(absU, Me(t).op),
                                   !.transient = Unrouted(t, Me(t).leaf)])
  /\ UNCHANGED <<heap, root, Ghosts>>

(***************************************************************************)
(* BLinkTree::range_lookup                                                 *)
(***************************************************************************)
\* a scan that starts at the first entry of the leaf
RangeIdxFromStart(t) ==
  /\ Me(t).pc = "r_idx"
  /\ Only(t, [Me(t) EXCEPT
       !.pc = IF 0 < Me(t).op.range THEN "r_collect" ELSE "ret",
       !.count = 0, !.ret = 0, !.idx = 0])
  /\ UNCHANGED <<heap, root, Ghosts>>

\* int count = 0; auto idx = leaf->find_lowerbound(min_key)
RangeIdx(t) ==
  /\ Me(t).pc = "r_idx"
  /\ Only(t, [Me(t) EXCEPT
       !.pc = IF 0 < Me(t).op.range THEN "r_collect" ELSE "ret",
       !.count = 0, !.ret = 0,
       !.idx = lowerbound_linear(heap[Me(t).leaf], Me(t).op.key)])
  /\ UNCHANGED <<heap, root, Ghosts>>

\* ret = leaf->range_lookup(idx, buf, count, range); sibling = leaf->sibling_ptr
RangeCollect(t) ==
  /\ Me(t).pc = "r_collect"
  /\ LET leaf == heap[Me(t).leaf]
         r == range_collect(leaf, Me(t).idx, Me(t).buf, Me(t).count,
                            Me(t).op.range)
     IN Only(t, [Me(t) EXCEPT
          !.pc = IF r.ret = Me(t).op.range \/ leaf.sibling_ptr = Null
                 THEN "r_fval" ELSE "r_slock",
          !.buf = r.buf, !.ret = r.ret, !.sibling = leaf.sibling_ptr])
  /\ UNCHANGED <<heap, root, Ghosts>>

\* the validation before return ret
RangeFinalValidate(t) ==
  /\ Me(t).pc = "r_fval"
  /\ LET version == heap[Me(t).leaf].lock
     IN IF need_restart(version) \/ Me(t).leaf_vstart /= version
        THEN Only(t, Restart(t))
        ELSE Only(t, [Me(t) EXCEPT !.pc = "ret"])
  /\ UNCHANGED <<heap, root, Ghosts>>

\* a scan that advances the version of the sibling it is going to read
RangeReadLockSiblingLocks(t) ==
  /\ Me(t).pc = "r_slock"
  /\ LET version == heap[Me(t).sibling].lock
     IN IF need_restart(version)
        THEN Only(t, Restart(t)) /\ UNCHANGED heap
        ELSE /\ Only(t, [Me(t) EXCEPT !.pc = "r_val",
                                      !.sibling_vstart = version + 4])
             /\ heap' = [heap EXCEPT ![Me(t).sibling].lock = version + 4]
  /\ UNCHANGED <<root, Ghosts>>

\* sibling->try_readlock(need_restart)
RangeReadLockSibling(t) ==
  /\ Me(t).pc = "r_slock"
  /\ LET version == heap[Me(t).sibling].lock
     IN IF need_restart(version)
        THEN Only(t, Restart(t))
        ELSE Only(t, [Me(t) EXCEPT !.pc = "r_val", !.sibling_vstart = version])
  /\ UNCHANGED <<heap, root, Ghosts>>

\* a scan that enters the next leaf at the index it used in the last one
RangeValidateKeepsIdx(t) ==
  /\ Me(t).pc = "r_val"
  /\ LET version == heap[Me(t).leaf].lock
     IN IF need_restart(version) \/ Me(t).leaf_vstart /= version
        THEN Only(t, Restart(t))
        ELSE Only(t, [Me(t) EXCEPT !.pc = "r_collect",
                                   !.leaf = Me(t).sibling,
                                   !.leaf_vstart = Me(t).sibling_vstart,
                                   !.sibling = Null, !.sibling_vstart = 0,
                                   !.count = Me(t).ret])
  /\ UNCHANGED <<heap, root, Ghosts>>

\* leaf->get_version(need_restart); leaf = sibling; count = ret; idx = 0
RangeValidate(t) ==
  /\ Me(t).pc = "r_val"
  /\ LET version == heap[Me(t).leaf].lock
     IN IF need_restart(version) \/ Me(t).leaf_vstart /= version
        THEN Only(t, Restart(t))
        ELSE Only(t, [Me(t) EXCEPT !.pc = "r_collect",
                                   !.leaf = Me(t).sibling,
                                   !.leaf_vstart = Me(t).sibling_vstart,
                                   !.sibling = Null, !.sibling_vstart = 0,
                                   !.count = Me(t).ret, !.idx = 0])
  /\ UNCHANGED <<heap, root, Ghosts>>

(***************************************************************************)
(* BLinkTree::height                                                       *)
(***************************************************************************)
\* return root->level
ReadHeight(t) ==
  /\ Me(t).pc = "h_level"
  /\ Only(t, [Me(t) EXCEPT !.pc = "ret", !.ret = heap[root].level])
  /\ UNCHANGED <<heap, root, Ghosts>>

(***************************************************************************)
(* The callers: main() runs thread 1 alone for the first gate operations   *)
(* and then lets the other threads start (concurrent_insert,               *)
(* concurrent_search of the benchmark).                                    *)
(***************************************************************************)
\* the leaves, and the keys that are in a leaf
Leaves == {n \in 1..Len(heap) : heap[n].level = 0}
StoredKeys == UNION {{heap[n].keys[i] : i \in 1..cnt(heap[n])} : n \in Leaves}

IsWrite(op) == op.kind \in {"insert", "update", "remove"}

\* keys and operations a thread may choose freely
FreeOps ==
  {Insert(k, 100 + k) : k \in {5, 75, 105}} \cup {Update(k, 200 + k) : k \in {20, 75}}
    \cup {Lookup(k) : k \in {20, 75, 105}} \cup {Remove(k) : k \in {20, 75}}
    \cup {RangeLookup(5, 1), RangeLookup(20, MaxRange)}

\* insert is called for keys that are not stored (and not being inserted)
Allowed(t, op) ==
  op.kind = "insert" =>
    /\ Get(abs, op.key) = 0
    /\ \A u \in Threads \ {t} :
         ~(Me(u).op.kind = "insert" /\ Me(u).op.key = op.key)

Choices(t) ==
  IF script[t] /= <<>> THEN {Head(script[t])}
  ELSE IF free[t] > 0 THEN {op \in FreeOps : Allowed(t, op)}
  ELSE {}

\* what the call of op by another thread means for the operation u is in
Disturbed(u, op) ==
  [Me(u) EXCEPT
     !.quiet = IF IsWrite(op) THEN FALSE ELSE @,
     !.before = IF IsWrite(op) THEN {} ELSE @,
     !.alone = IF IsWrite(op) /\ op.key = Me(u).op.key THEN FALSE ELSE @]

Call(t) ==
  /\ Me(t).pc = "idle"
  /\ t = 1 \/ gate = 0
  /\ \E op \in Choices(t) :
       /\ th' = [u \in Threads |->
                  IF u = t
                  THEN [Idle EXCEPT
                          !.pc = IF op.kind = "height" THEN "h_level"
                                 ELSE "t_root",
                          !.op = op,
                          !.quiet = \A w \in Threads \ {t} : ~IsWrite(Me(w).op),
                          !.alone = \A w \in Threads \ {t} :
                                 ~(IsWrite(Me(w).op) /\ Me(w).op.key = op.key),
                          !.before =
                            IF \A w \in Threads \ {t} : ~IsWrite(Me(w).op)
                            THEN abs ELSE {},
                          !.stored = IF op.kind = "range_lookup"
                                     THEN StoredKeys ELSE {},
                          !.known = Get(abs, op.key)]
                  ELSE Disturbed(u, op)]
       /\ seen' = IF op.kind \in {"insert", "update"}
                  THEN seen \cup {<<op.key, op.value>>} ELSE seen
       /\ called' = called \cup {op.kind}
  /\ script' = [script EXCEPT ![t] = IF @ /= <<>> THEN Tail(@) ELSE @]
  /\ free' = [free EXCEPT ![t] = IF script[t] = <<>> THEN @ - 1 ELSE @]
  /\ UNCHANGED <<heap, root, gate, Maps, removed>>

Return(t) ==
  /\ Me(t).pc = "ret"
  /\ Only(t, Idle)
  /\ gate' = IF t = 1 /\ gate > 0 THEN gate - 1 ELSE gate
  /\ removed' = IF Me(t).op.kind = "remove" /\ Me(t).ret = 1
                THEN Put(removed, Me(t).op.key, Get(removed, Me(t).op.key) + 1)
                ELSE removed
  /\ UNCHANGED <<heap, root, script, free, seen, called, Maps>>

(***************************************************************************)
(* Workloads.                                                              *)
(***************************************************************************)
\* insert of the keys 10 * from, ..., 10 * to in ascending order
Ascending(from, to) == [i \in 1..(to - from + 1) |-> Insert(10 * (from + i - 1),
                                                           100 + 10 * (from + i - 1))]
Inserts(ks) == [i \in 1..Len(ks) |-> Insert(ks[i], 100 + ks[i])]

Workload(pre, s1, s2, f1, f2) ==
  [script |-> (1 :> (pre \o s1)) @@ (2 :> s2),
   free |-> (1 :> f1) @@ (2 :> f2),
   gate |-> Len(pre)]

\* the trees thread 1 builds first: empty; one full leaf; two full leaves
\* under a root with one key; a full root over four leaves, two of them full
Preloads ==
  {<<>>, Ascending(1, 4), Ascending(1, 6) \o Inserts(<<11, 12>>),
   Ascending(1, 10) \o Inserts(<<11, 12>>)}

\* then either each thread calls one operation of its choice, or thread 1
\* calls MaxSeqOps operations of its choice
FreeWorkloads ==
  {Workload(p, <<>>, <<>>, 1, 1) : p \in Preloads}
    \cup {Workload(p, <<>>, <<>>, MaxSeqOps, 0) : p \in Preloads}

\* thread 2 reads root while it is the first leaf and comes back when the
\* tree has grown: update_splitted_root chases siblings at the parent level
StaleLeafRoot ==
  Workload(Ascending(1, 4), Inserts(<<50, 60, 70, 80, 90, 100, 11, 12, 13>>),
           Inserts(<<95>>), 0, 0)
\* the same, with a full node at the parent level: update_splitted_root splits
StaleLeafRootFull ==
  Workload(Ascending(1, 4), Inserts(<<50, 60, 70, 80, 90, 41, 42>>),
           Inserts(<<45>>), 0, 0)
\* thread 2 looks a key up from a root that is being replaced and finds it
\* in the right half of a split whose separator is not yet in the parent
StaleLookup ==
  Workload(Inserts(<<10, 20, 30, 60>>), Inserts(<<70, 40, 50>>), <<Lookup(60)>>,
           0, 0)
\* a scan over a leaf that remove has emptied, and over the whole tree
ScanEmptiedLeaf ==
  Workload(Ascending(1, 6),
           <<Remove(10), Remove(20), RangeLookup(5, 3), RangeLookup(1, 9),
             Remove(10), Insert(15, 115), Lookup(15), Update(15, 215),
             Lookup(15), Update(16, 216)>>,
           <<>>, 0, 0)

\* thread 2 descends through an internal node that splits a second time
\* between the validation of that node and the test that guards the push
TwiceSplitParent ==
  Workload(Ascending(1, 10),
           Inserts(<<110, 120, 130, 140, 150, 91, 92, 11, 12, 13, 14, 15>>),
           Inserts(<<95>>), 0, 0)

\* one thread inserts the keys 1..8 in ascending order into the empty tree
AscendingEight ==
  Workload(<<>>, Inserts(<<1, 2, 3, 4, 5, 6, 7, 8>>), <<>>, 0, 0)

\* height() of the freshly constructed tree and after the first split
HeightWhileGrowing ==
  Workload(<<>>, <<Height>> \o Inserts(<<1, 2, 3, 4, 5>>) \o <<Height>>, <<>>,
           0, 0)

\* thread 1 scans the leaves that the inserts of thread 2 split
ScanWhileSplitting ==
  Workload(Ascending(1, 4), <<RangeLookup(20, 6)>>, Inserts(<<25, 35, 26>>),
           0, 0)

ScriptedWorkloads ==
  {StaleLeafRoot, StaleLeafRootFull, StaleLookup, ScanEmptiedLeaf,
   TwiceSplitParent, AscendingEight, HeightWhileGrowing, ScanWhileSplitting}

Workloads == FreeWorkloads \cup ScriptedWorkloads

\* the key 20 is inserted twice, into one leaf that does not split
TwiceInOneLeaf ==
  Workload(<<>>,
           <<Insert(20, 120), Insert(10, 110), Insert(20, 220), Lookup(20),
             Remove(20), Lookup(20), Remove(20), Remove(20), Lookup(20)>>,
           <<>>, 0, 0)
\* the key 20 is inserted twice and the insert of 40 splits the leaf
TwiceThenSplit ==
  Workload(<<>>,
           <<Insert(10, 110), Insert(20, 120), Insert(20, 220), Insert(30, 130),
             Insert(40, 140), Lookup(20), Remove(20), Lookup(20), Remove(20),
             Remove(20), Lookup(20)>>,
           <<>>, 0, 0)
\* workloads in which a caller inserts a key that is already stored
DuplicateWorkloads == {TwiceInOneLeaf, TwiceThenSplit}

\* the value new InternalNode<key_t>() leaves in the root's high_key: below
\* every key, between the keys, above every key
Uninitialized == {0, 45, 1000}

\* BLinkTree::BLinkTree: root = new InternalNode<key_t>()
EmptyRoot(high_key) ==
  [lock |-> 0, sibling_ptr |-> Null, level |-> 0, high_key |-> high_key,
   keys |-> <<>>, vals |-> <<>>]

\* the freshly constructed tree and the threads that are going to run W
InitWith(W) ==
  /\ \E h \in Uninitialized : heap = <<EmptyRoot(h)>>
  /\ root = 1
  /\ th = [t \in Threads |-> Idle]
  /\ \E w \in W : script = w.script /\ free = w.free /\ gate = w.gate
  /\ abs = {}
  /\ absU = {}
  /\ seen = {}
  /\ called = {}
  /\ removed = {}

Init == InitWith(Workloads)

Step(t) ==
  \/ Call(t) \/ Return(t)
  \/ LoadRoot(t) \/ ReadLockCur(t) \/ ScanNode(t) \/ ReadLockChild(t)
  \/ ValidateCur(t) \/ PushStack(t)
  \/ LeafCheck(t) \/ ReadLockSibling(t) \/ ValidateLeaf(t)
  \/ UpgradeLeaf(t) \/ InsertLeaf(t) \/ AfterLeafSplit(t) \/ LeafNewRoot(t)
  \/ UpdateLeaf(t) \/ RemoveLeaf(t) \/ LeafUnlock(t)
  \/ ParentReadLock(t) \/ ParentChase(t) \/ ParentSiblingReadLock(t)
  \/ ParentValidate(t) \/ ParentUpgrade(t) \/ UnlockLeft(t)
  \/ ParentInsert(t) \/ ParentGrow(t) \/ ParentNewRoot(t) \/ ParentUnlock(t)
  \/ ULoadRoot(t) \/ UReadLockCur(t) \/ UScanNode(t) \/ UReadLockChild(t)
  \/ UValidateCur(t) \/ UChase(t) \/ UReadLockSibling(t) \/ UValidateSibling(t)
  \/ UUpgrade(t) \/ UUnlockPrev(t) \/ UInsert(t) \/ UGrow(t) \/ UNewRoot(t)
  \/ UNodeUnlock(t)
  \/ Find(t) \/ ValidateFound(t)
  \/ RangeIdx(t) \/ RangeCollect(t) \/ RangeFinalValidate(t)
  \/ RangeReadLockSibling(t) \/ RangeValidate(t)
  \/ ReadHeight(t)

Next == \E t \in Threads : Step(t)

Spec == Init /\ [][Next]_vars

\* the same threads, also with callers that insert a key twice
DuplicateSpec ==
  InitWith(Workloads \cup DuplicateWorkloads) /\ [][Next]_vars

\* every thread that can take a step eventually takes one
FairSpec == Spec /\ \A t \in Threads : WF_vars(Step(t))

(***************************************************************************)
(* Linearizability of insert, update, lookup and remove                    *)
(***************************************************************************)
Returned(t, kinds) == Me(t).pc = "ret" /\ Me(t).op.kind \in kinds

\* C1 as the specification states it: with every write taking effect at the
\* write_unlock of its leaf and every lookup at its version validation, each
\* lookup, update and remove that returns has returned what the map held at
\* that point, and each insert that returns has taken effect.
C1_LinearizableAtWriteUnlock ==
  \A t \in Threads :
    /\ Returned(t, {"lookup", "update", "remove"}) => Me(t).ret = Me(t).linU
    /\ Returned(t, {"insert", "update", "remove"}) => ~Me(t).pendingU

\* C1 with one linearization point moved: the insert that splits the root
\* leaf takes effect when it stores the new root, which is before it unlocks
\* the leaf; every other write takes effect at the write_unlock of its leaf
\* and every lookup at its version validation.  Each lookup, update and
\* remove that returns has returned what the map held at that point.
C1_Linearizable ==
  \A t \in Threads :
    /\ Returned(t, {"lookup", "update", "remove"}) => Me(t).ret = Me(t).lin
    /\ Returned(t, {"insert", "update", "remove"}) => ~Me(t).pending

\* a lookup has returned the value of an insert that still holds its leaf
C1_ReadBeforeUnlock ==
  \E t \in Threads : \E u \in Threads \ {t} :
    /\ Returned(t, {"lookup"})
    /\ Me(u).op.kind = "insert" /\ Me(u).pc = "leaf_unl"
    /\ Me(u).op.key = Me(t).op.key
    /\ Me(t).ret = Me(u).op.value

\* a thread waits for a node that it has locked itself
SelfBlocked ==
  \E t \in Threads : Me(t).pc = "b_slock" /\ Me(t).sibling \in Me(t).held

(***************************************************************************)
(* The tree at rest                                                        *)
(***************************************************************************)
\* traverse_to_leafnode when no other thread runs, from node ptr
RECURSIVE traverse_from(_, _)
traverse_from(ptr, key) ==
  IF heap[ptr].level /= 0
  THEN traverse_from(scan_node(heap[ptr], key), key)
  ELSE IF heap[ptr].sibling_ptr /= Null /\ heap[ptr].high_key < key
       THEN traverse_from(heap[ptr].sibling_ptr, key)
       ELSE ptr

\* BLinkTree::lookup when no other thread runs
lookup(key) == find_linear(heap[traverse_from(root, key)], key)

\* the keys that are stored or were passed to an operation, and their
\* neighbours
ProbeKeys ==
  LET base == StoredKeys \cup {p[1] : p \in seen \cup abs}
                \cup {Me(t).op.key : t \in Threads}
  IN base \cup {k + 1 : k \in base} \cup {k - 1 : k \in base \ {0}}

NoWriteInFlight == \A t \in Threads : ~IsWrite(Me(t).op)
Quiescent == \A t \in Threads : Me(t).pc = "idle"
Finished == Quiescent /\ \A t \in Threads : script[t] = <<>> /\ free[t] = 0

\* C2: when only inserts (of distinct keys) and reads have been called and
\* every insert has returned, lookup(k) is the inserted value for every
\* inserted key k and is 0 for every other key.
C2_InsertedKeysRetrievable ==
  (called \subseteq {"insert", "lookup", "range_lookup"} /\ NoWriteInFlight)
    => \A k \in ProbeKeys : lookup(k) = Get(seen, k)

\* both threads have inserted, leaves, an internal node and the root have
\* split, and every insert has returned
C2_AfterConcurrentSplits ==
  /\ Finished /\ called = {"insert"}
  /\ heap[root].level = 2
  /\ Get(seen, 95) /= 0 /\ Get(seen, 15) /= 0

(***************************************************************************)
(* Lookups during inserts                                                  *)
(***************************************************************************)
\* C3: a lookup(k) that returns has returned 0 or a value that was passed
\* for k; and when k was stored with value v at the call of the lookup and
\* no write of k was in flight then or called later, it has returned v.
C3_LookupDuringInserts ==
  \A t \in Threads :
    Returned(t, {"lookup"}) =>
      /\ Me(t).ret = 0 \/ <<Me(t).op.key, Me(t).ret>> \in seen
      /\ (Me(t).known /= 0 /\ Me(t).alone) => Me(t).ret = Me(t).known

\* a lookup has found a key that was stored before the call in a leaf whose
\* separator another thread had not yet put into the parent
C3_FoundWhileUnrouted ==
  \E t \in Threads :
    /\ Returned(t, {"lookup"}) /\ called = {"insert", "lookup"}
    /\ Me(t).transient /\ Me(t).alone
    /\ Me(t).known /= 0 /\ Me(t).ret = Me(t).known

(***************************************************************************)
(* The write lock                                                          *)
(***************************************************************************)
Nodes == 1..Len(heap)
Holders(n) == {t \in Threads : n \in Me(t).held}
\* what the write lock of a node protects
Content(n) == <<n.keys, n.vals, n.high_key, n.sibling_ptr>>

AtMostOneHolder ==
  \A n \in Nodes :
    /\ Cardinality(Holders(n)) <= 1
    /\ Holders(n) /= {} => is_locked(heap[n].lock)

\* C4: no node ever has two holders of its write lock, and a step that
\* changes the entries, count, high_key or sibling pointer of a node that
\* a thread holds is a step of that thread.
C4_MutualExclusion ==
  [][/\ AtMostOneHolder /\ AtMostOneHolder'
     /\ \A n \in Nodes : \A t \in Holders(n) :
          Content(heap'[n]) /= Content(heap[n]) => th'[t] /= th[t]]_vars

\* a thread is about to upgrade its token on a leaf that another thread has
\* locked and changed
C4_UpgradeOfLockedLeaf ==
  \E t \in Threads : \E u \in Threads \ {t} :
    /\ Me(u).pc = "upg" /\ Me(u).leaf \in Me(t).held
    /\ Me(t).pc = "leaf_unl"

(***************************************************************************)
(* Termination                                                             *)
(***************************************************************************)
\* C5: when every thread that can take a step eventually takes one, every
\* operation that is called returns, so that in the end every thread is
\* idle and has called all its operations.
C5_EveryOperationReturns == <>Finished

(***************************************************************************)
(* The locks one thread holds                                              *)
(***************************************************************************)
\* at most two, and two are the left half of a split and, one level above
\* it, the node that receives the separator
ChildAndParent(t) ==
  /\ Cardinality(Me(t).held) <= 2
  /\ Cardinality(Me(t).held) = 2 =>
       /\ Me(t).left_node \in Me(t).held
       /\ \E p \in Me(t).held :
            heap[p].level = heap[Me(t).left_node].level + 1

\* C6: a thread never holds more than two write locks; two are a node at
\* level L that it has split and a node at level L+1; and the next change
\* of what it holds is the release of the node at level L.
C6_TwoLocksAtAdjacentLevels ==
  [][\A t \in Threads :
       /\ ChildAndParent(t) /\ ChildAndParent(t)'
       /\ (Cardinality(Me(t).held) = 2 /\ Me(t).held' /= Me(t).held)
            => Me(t).held' = Me(t).held \ {Me(t).left_node}]_vars

\* a thread holds an internal node that it has split and the parent of it
C6_HoldsInternalAndParent ==
  \E t \in Threads :
    /\ Cardinality(Me(t).held) = 2
    /\ heap[Me(t).left_node].level = 1
    /\ Me(t).pc = "b_unl"

(***************************************************************************)
(* update, remove and range_lookup with no other writer                    *)
(***************************************************************************)
\* thread t is in an operation of one of these kinds, no write of another
\* thread was in flight at its call, and none has been called since
Undisturbed(t, kinds) == Me(t).op.kind \in kinds /\ Me(t).quiet
\* lookup answers every probed key as the map m does
TreeIs(m) == \A k \in ProbeKeys : lookup(k) = Get(m, k)

\* C7: an update(k, v') that runs with no other writer starts on a tree that
\* answers as the map before it does; it returns true exactly when k was
\* stored; and when it returns lookup(k) is v' if it returned true,
\* and every other key, and k if it returned false, is answered as before.
C7_Update ==
  \A t \in Threads :
    Undisturbed(t, {"update"}) =>
      /\ Me(t).pc = "t_root" => TreeIs(Me(t).before)
      /\ Me(t).pc = "ret" =>
           /\ Me(t).ret = B2N(Get(Me(t).before, Me(t).op.key) /= 0)
           /\ TreeIs(IF Me(t).ret = 1
                     THEN Put(Me(t).before, Me(t).op.key, Me(t).op.value)
                     ELSE Me(t).before)

\* an update has returned true for a key that a split had moved to another
\* leaf than the one it was inserted into
C7_UpdatedAfterSplits ==
  \E t \in Threads :
    /\ Undisturbed(t, {"update"}) /\ Me(t).pc = "ret" /\ Me(t).ret = 1
    /\ heap[root].level >= 1
    /\ lookup(Me(t).op.key) = Me(t).op.value

\* C8: a remove(k) that runs with no other writer starts on a tree that
\* answers as the map before it does; it returns true exactly when k was
\* stored (so false when an earlier remove has taken k away); and when it
\* returns lookup(k) is 0 and every other key is answered as before.
C8_Remove ==
  \A t \in Threads :
    Undisturbed(t, {"remove"}) =>
      /\ Me(t).pc = "t_root" => TreeIs(Me(t).before)
      /\ Me(t).pc = "ret" =>
           /\ Me(t).ret = B2N(Get(Me(t).before, Me(t).op.key) /= 0)
           /\ TreeIs(Del(Me(t).before, Me(t).op.key))

\* a second remove of a key has returned false, and the other keys of its
\* leaf are still found
C8_SecondRemove ==
  \E t \in Threads :
    /\ Undisturbed(t, {"remove"}) /\ Me(t).pc = "ret" /\ Me(t).ret = 0
    /\ "remove" \in called /\ Get(seen, Me(t).op.key) /= 0
    /\ Me(t).before /= {} /\ heap[root].level >= 1

(***************************************************************************)
(* Operations on absent keys                                               *)
(***************************************************************************)
\* the key of the operation of t was not stored at the call, and no write
\* of this key was in flight then or has been called since
OnAbsentKey(t) ==
  /\ Me(t).op.kind \in {"lookup", "update", "remove"}
  /\ Me(t).known = 0 /\ Me(t).alone
\* everything of the tree but the lock words
Shape == <<root, [n \in Nodes |-> <<heap[n].level, Content(heap[n])>>]>>

\* C9: a lookup, update or remove of a key that is not stored returns 0
\* (false), and no step of it changes the stored pairs, a node's count,
\* high_key or sibling pointer, or the root pointer.
C9_AbsentKey ==
  [][\A t \in Threads :
       OnAbsentKey(t) =>
         /\ Me(t).pc = "ret" => Me(t).ret = 0
         /\ th'[t] /= th[t] => Shape' = Shape /\ abs' = abs]_vars

\* a remove of a key that is not stored has locked and unlocked the leaf of
\* a freshly constructed tree and returned
C9_RemoveOnFreshTree ==
  \E t \in Threads :
    /\ OnAbsentKey(t) /\ Me(t).op.kind = "remove" /\ Me(t).pc = "ret"
    /\ Len(heap) = 1 /\ cnt(heap[1]) = 0 /\ heap[1].lock = 4

(***************************************************************************)
(* range_lookup with no writer                                             *)
(***************************************************************************)
\* C10: a range_lookup(a, n, buf) that runs with no writer returns
\* min(n, number of stored keys >= a), and buf[i] is the value of the i-th
\* smallest stored key >= a.
C10_RangeLookup ==
  \A t \in Threads :
    (Undisturbed(t, {"range_lookup"}) /\ Me(t).pc = "ret") =>
      LET want == RangeOf(Me(t).before, Me(t).op.key, Me(t).op.range)
      IN /\ Me(t).ret = Len(want)
         /\ SubSeq(Me(t).buf, 1, Me(t).ret) = want

\* a scan has crossed a leaf that remove had emptied and has returned every
\* stored key, fewer than it asked for
C10_AcrossEmptiedLeaf ==
  \E t \in Threads :
    /\ Undisturbed(t, {"range_lookup"}) /\ Me(t).pc = "ret"
    /\ \E n \in Leaves : cnt(heap[n]) = 0 /\ heap[n].sibling_ptr /= Null
    /\ Me(t).ret = Cardinality(Me(t).before)
    /\ 0 < Me(t).ret /\ Me(t).ret < Me(t).op.range

(***************************************************************************)
(* The sibling chains                                                      *)
(***************************************************************************)
\* the first node of a level: from root by leftmost_ptr() down to that level
Leftmost(level) ==
  LET RECURSIVE leftmost_from(_)
      leftmost_from(ptr) ==
        IF heap[ptr].level <= level THEN ptr
        ELSE leftmost_from(heap[ptr].vals[1])
  IN leftmost_from(root)

\* the nodes of a level in sibling order, from the first one on; a chain
\* that does not end is cut off after one node more than there are nodes
Chain(level) ==
  LET RECURSIVE chain_from(_, _)
      chain_from(ptr, fuel) ==
        IF ptr = Null \/ fuel = 0 THEN <<>>
        ELSE <<ptr>> \o chain_from(heap[ptr].sibling_ptr, fuel - 1)
  IN chain_from(Leftmost(level), Len(heap) + 1)

\* the keys of the leaves, leaf by leaf in sibling order
LeafChainKeys == [i \in 1..Len(Chain(0)) |-> heap[Chain(0)[i]].keys]

\* the inserts of the keys 1..n, called in ascending order on the empty
\* tree, have all returned and nothing else was called
AfterAscending(n) ==
  /\ Quiescent /\ called = {"insert"}
  /\ seen = {<<k, 100 + k>> : k \in 1..n}

\* C11 as the specification states it: with leaf capacity 4, after the
\* inserts of 1..8 in ascending order into the empty tree the leaf chain
\* has exactly two leaves, with the keys 1,2,3,4 and 5,6,7,8.
C11_TwoLeavesAfterEight ==
  AfterAscending(8) => LeafChainKeys = <<<<1, 2, 3, 4>>, <<5, 6, 7, 8>>>>

\* C11 as the code behaves: LeafNode::split moves the upper half of a full
\* leaf to the new leaf, so with leaf capacity 4 the 5th insert leaves 1,2
\* and 3,4,5 and the 7th insert splits again: after the inserts of 1..8 the
\* leaf chain has exactly three leaves, with the keys 1,2 and 3,4 and
\* 5,6,7,8.
C11_ThreeLeavesAfterEight ==
  (LeafCardinality = 4 /\ AfterAscending(8))
    => LeafChainKeys = <<<<1, 2>>, <<3, 4>>, <<5, 6, 7, 8>>>>

\* the 8th ascending insert has returned and the last leaf is full
C11_EightInserted ==
  /\ LeafCardinality = 4 /\ AfterAscending(8)
  /\ LeafChainKeys[Len(LeafChainKeys)] = <<5, 6, 7, 8>>

(***************************************************************************)
(* height                                                                  *)
(***************************************************************************)
\* C12: a height() that returns has returned an integer >= 1; when no
\* write ran beside it, it has returned the number of levels of the tree,
\* root.level + 1; and with leaf capacity 4, called right after the 5th
\* ascending insert, it has returned 2.
C12_Height ==
  \A t \in Threads :
    Returned(t, {"height"}) =>
      /\ Me(t).ret >= 1
      /\ Me(t).quiet => Me(t).ret = heap[root].level + 1
      /\ (LeafCardinality = 4 /\ seen = {<<k, 100 + k>> : k \in 1..5})
           => Me(t).ret = 2

\* height() has returned on the freshly constructed tree
C12_HeightOfFreshTree ==
  \E t \in Threads :
    /\ Returned(t, {"height"}) /\ seen = {}
    /\ Len(heap) = 1 /\ heap[root].level = 0

(***************************************************************************)
(* The replacement of root                                                 *)
(***************************************************************************)
\* C13: every step that changes root is a step of a thread that holds the
\* write lock of the node that is root before the step; the new root is a
\* node allocated in this step, of level root.level + 1, without sibling,
\* with exactly one key and with the old root and the right sibling of the
\* old root as its two children.  (So the level of root grows by one with
\* every replacement, and no node is replaced as root twice.)
C13_RootReplacement ==
  [][root' /= root =>
       /\ \E t \in Threads : root \in Me(t).held /\ th'[t] /= th[t]
       /\ root' \notin Nodes
       /\ heap'[root'].level = heap[root].level + 1
       /\ heap'[root'].sibling_ptr = Null
       /\ cnt(heap'[root']) = 1
       /\ heap'[root'].vals = <<root, heap[root].sibling_ptr>>
       /\ heap[root].sibling_ptr /= Null]_vars

\* update_splitted_root has split the node it found at the parent level,
\* found it to be root and stored a new root of level 2, while the other
\* thread is still in the insert that it called before root was replaced
C13_RootGrownAfterRace ==
  \E t \in Threads : \E u \in Threads \ {t} :
    /\ Me(t).pc = "u_nunl" /\ root = Len(heap)
    /\ heap[root].level = 2 /\ heap[root].vals[1] = Me(t).cur
    /\ Me(u).op.kind = "insert"

(***************************************************************************)
(* A key that is inserted twice                                            *)
(***************************************************************************)
\* the values passed to insert for key k
InsertedValues(k) == {p[2] : p \in {q \in seen : q[1] = k}}

\* C14: when a key k has been inserted twice and only insert, lookup and
\* remove are called, with no two operations at the same time, the removes
\* consume the two entries one at a time: a remove(k) returns true when fewer
\* than two removes of k have returned true before and false otherwise; and
\* a lookup(k) returns one of the two inserted values while an entry is
\* left, and 0 afterwards.
C14_InsertedTwice ==
  \A t \in Threads :
    LET k == Me(t).op.key
        left == Cardinality(InsertedValues(k)) - Get(removed, k)
    IN (/\ Me(t).pc = "ret" /\ Me(t).quiet
        /\ called \subseteq {"insert", "lookup", "remove"}
        /\ Cardinality(InsertedValues(k)) = 2) =>
         /\ Me(t).op.kind = "remove" => Me(t).ret = B2N(left > 0)
         /\ Me(t).op.kind = "lookup" =>
              IF left > 0 THEN Me(t).ret \in InsertedValues(k) ELSE Me(t).ret = 0

\* a split has put the two entries of a key into two leaves, and the second
\* remove of the key has returned false
C14_SecondRemoveFails ==
  \E t \in Threads :
    /\ Returned(t, {"remove"}) /\ Me(t).ret = 0
    /\ Cardinality(InsertedValues(Me(t).op.key)) = 2
    /\ Get(removed, Me(t).op.key) = 1
    /\ Me(t).op.key \in StoredKeys

(***************************************************************************)
(* The left half of a split and the node that receives the separator       *)
(***************************************************************************)
\* thread t has split node n and holds it: n is left_node, and its sibling
\* is the right half that t has still to hand to a parent or a new root
HoldsLeftHalf(t, n) ==
  /\ n \in Me(t).held /\ n = Me(t).left_node
  /\ heap[n].sibling_ptr = Me(t).right_node

\* C15: a step in which a thread releases the left half n of its split is
\* taken either when the thread holds no other lock and a node one level
\* above n has n and the right half as neighbouring children (the new root
\* the thread has stored), or when the thread holds the write lock of a node
\* one level above n, keeps it in this step, and that node does not yet have
\* the right half as a child (the separator is inserted after the release).
C15_LeftReleasedUnderParentLock ==
  [][\A t \in Threads : \A n \in Me(t).held \ th'[t].held :
       HoldsLeftHalf(t, n) =>
         \/ /\ Me(t).held = {n}
            /\ \E q \in Nodes : \E i \in 1..cnt(heap[q]) :
                 /\ heap[q].level = heap[n].level + 1
                 /\ heap[q].vals[i] = n
                 /\ heap[q].vals[i + 1] = Me(t).right_node
         \/ \E p \in Me(t).held \cap th'[t].held :
              /\ heap[p].level = heap[n].level + 1
              /\ \A i \in 1..Len(heap[p].vals) :
                   heap[p].vals[i] /= Me(t).right_node]_vars

\* update_splitted_root has released the left half and holds the node of
\* the parent level, which does not yet have the right half as a child
C15_ReleasedBeforeInsert ==
  \E t \in Threads :
    /\ Me(t).pc = "u_ins" /\ Me(t).held = {Me(t).cur}
    /\ ~is_locked(heap[Me(t).left_node].lock)
    /\ heap[Me(t).left_node].sibling_ptr = Me(t).right_node
    /\ \A i \in 1..Len(heap[Me(t).cur].vals) :
         heap[Me(t).cur].vals[i] /= Me(t).right_node

(***************************************************************************)
(* Routing in every state                                                  *)
(***************************************************************************)
\* C16: in every reachable state the routing rule, applied from root to a
\* key that is stored in a leaf, ends at the leaf that stores it.
C16_StoredKeysRouted ==
  \A n \in Leaves : \A i \in 1..cnt(heap[n]) :
    traverse_from(root, heap[n].keys[i]) = n

\* a writer is about to insert the separator of a split leaf: no internal
\* node has the right half as a child yet, and its keys are reached through
\* the sibling pointer of the left half
C16_RightHalfWithoutSeparator ==
  \E t \in Threads :
    /\ Me(t).pc = "b_ins" /\ heap[Me(t).right_node].level = 0
    /\ cnt(heap[Me(t).right_node]) > 0
    /\ \A q \in Nodes \ Leaves : \A i \in 1..Len(heap[q].vals) :
         heap[q].vals[i] /= Me(t).right_node
    /\ traverse_from(root, heap[Me(t).right_node].keys[1]) = Me(t).right_node

(***************************************************************************)
(* The node primitives on their own: heap is one node that no thread has   *)
(* reached, and a step applies a primitive to it.  The arguments of the    *)
(* last application are kept in split_key and right_node of thread 1, the  *)
(* locals a writer passes to InternalNode::insert.                         *)
(***************************************************************************)
\* an internal node that is not full, with strictly ascending keys
PrimitiveInit ==
  /\ \E ks \in UNION {[1..c -> {10, 20, 30, 40}] : c \in 0..(InternalCardinality - 2)} :
       \E h \in Uninitialized :
         /\ \A i \in 1..(Len(ks) - 1) : ks[i] < ks[i + 1]
         /\ heap = <<[lock |-> 2, sibling_ptr |-> Null, level |-> 1,
                      high_key |-> h, keys |-> ks,
                      vals |-> [i \in 1..(Len(ks) + 1) |-> 10 + i]]>>
  /\ root = 1
  /\ th = [t \in Threads |-> Idle]
  /\ script = [t \in Threads |-> <<>>]
  /\ free = [t \in Threads |-> 0]
  /\ gate = 0
  /\ abs = {} /\ absU = {} /\ seen = {} /\ called = {} /\ removed = {}

\* node->insert(key, value) with a key that the node does not have
ApplyInternalInsert ==
  /\ ~InternalIsFull(heap[1])
  /\ \E key \in {10, 20, 30, 40, 50} : \E value \in {21, 22} :
       /\ \A i \in 1..cnt(heap[1]) : heap[1].keys[i] /= key
       /\ heap' = <<InternalInsert(heap[1], key, value)>>
       /\ th' = [th EXCEPT ![1].split_key = key, ![1].right_node = value]
  /\ UNCHANGED <<root, Ghosts>>

PrimitiveNext == ApplyInternalInsert

PrimitiveSpec == PrimitiveInit /\ [][PrimitiveNext]_vars

\* C17: InternalNode::insert(k, C) on a node that is not full, has strictly
\* ascending keys and does not have k: afterwards the keys are the old keys
\* with k at its sorted position pos, the children are the old children
\* with C put in at index pos + 1 (so the child at index pos is the one that
\* was there before, and all others keep their order), the count has grown
\* by one and the keys are strictly ascending.
C17_InternalInsert ==
  [][LET n == heap[1]
         m == heap'[1]
         k == th'[1].split_key
         C == th'[1].right_node
         pos == Cardinality({i \in 1..cnt(n) : n.keys[i] < k})
     IN /\ m.keys = InsertAt(n.keys, pos, k)
        /\ m.vals = InsertAt(n.vals, pos + 1, C)
        /\ m.vals[pos + 1] = n.vals[pos + 1] /\ m.vals[pos + 2] = C
        /\ cnt(m) = cnt(n) + 1 /\ Len(m.vals) = cnt(m) + 1
        /\ \A i \in 1..(cnt(m) - 1) : m.keys[i] < m.keys[i + 1]]_vars

\* a key has been inserted between two keys of a node, and its child
\* between their children
C17_InsertedInTheMiddle ==
  LET n == heap[1]
  IN /\ n.level = 1 /\ cnt(n) = InternalCardinality - 1
     /\ \E i \in 2..(cnt(n) - 1) :
          n.keys[i] = Me(1).split_key /\ n.vals[i + 1] = Me(1).right_node

(***************************************************************************)
(* The order of the keys                                                   *)
(***************************************************************************)
\* C18: when no key is inserted while it is stored, in every reachable
\* state the keys of every node, leaf or internal, are strictly increasing
\* in index order, and no key is a separator in two internal nodes of one
\* level.
C18_KeysStrictlyIncreasing ==
  /\ \A n \in Nodes : \A i \in 1..(cnt(heap[n]) - 1) :
       heap[n].keys[i] < heap[n].keys[i + 1]
  /\ \A n \in Nodes \ Leaves : \A m \in Nodes \ (Leaves \cup {n}) :
       heap[n].level = heap[m].level =>
         \A i \in 1..cnt(heap[n]) : \A j \in 1..cnt(heap[m]) :
           heap[n].keys[i] /= heap[m].keys[j]

\* a root with two separators over three nodes of level 1, two of which
\* have separators, when every operation has returned
C18_SeparatorsInTwoNodes ==
  /\ Quiescent /\ heap[root].level = 2 /\ cnt(heap[root]) = 2
  /\ Cardinality({n \in Nodes : heap[n].level = 1 /\ cnt(heap[n]) >= 1}) >= 2

(***************************************************************************)
(* The order of the subtrees                                               *)
(***************************************************************************)
\* the leaves that are reached from node ptr through child pointers
RECURSIVE SubtreeLeaves(_)
SubtreeLeaves(ptr) ==
  IF heap[ptr].level = 0 THEN {ptr}
  ELSE UNION {SubtreeLeaves(heap[ptr].vals[i]) : i \in 1..Len(heap[ptr].vals)}
\* the keys stored in the subtree of node ptr
SubtreeKeys(ptr) ==
  UNION {{heap[n].keys[i] : i \in 1..cnt(heap[n])} : n \in SubtreeLeaves(ptr)}

\* C19: in every state in which no operation is in progress, for every
\* internal node and every key of it, the keys stored in the subtree of the
\* child to the left of the key are <= the key and the keys stored in the
\* subtree of the child to the right of it are > the key; and every leaf of
\* the leaf chain is reached from root through child pointers.
C19_SubtreesOrdered ==
  Quiescent =>
    /\ \A n \in Nodes \ Leaves : \A i \in 1..cnt(heap[n]) :
         /\ \A k \in SubtreeKeys(heap[n].vals[i]) : k <= heap[n].keys[i]
         /\ \A k \in SubtreeKeys(heap[n].vals[i + 1]) : k > heap[n].keys[i]
    /\ \A i \in 1..Len(Chain(0)) : Chain(0)[i] \in SubtreeLeaves(root)

\* no operation is in progress on a tree of three levels from which a key
\* has been removed
C19_ThreeLevelsAfterRemove ==
  /\ Quiescent /\ heap[root].level = 2
  /\ \E p \in removed : p[2] = 1 /\ p[1] \notin StoredKeys

(***************************************************************************)
(* The sibling chain of every level                                        *)
(***************************************************************************)
\* C20: in every reachable state, for every level of the tree, the sibling
\* chain from the first node of the level ends (with a null pointer), visits
\* every node of the level exactly once, and high_key does not decrease
\* along it; and no node is of a level above root.  This holds for every
\* value the high_key of the first root has after construction.
C20_SiblingChains ==
  /\ \A n \in Nodes : heap[n].level <= heap[root].level
  /\ \A level \in 0..heap[root].level :
       LET c == Chain(level)
       IN /\ Len(c) <= Len(heap)
          /\ {c[i] : i \in 1..Len(c)} = {n \in Nodes : heap[n].level = level}
          /\ \A i \in 1..Len(c) : \A j \in 1..Len(c) : c[i] = c[j] => i = j
          /\ \A i \in 1..(Len(c) - 1) :
               heap[c[i]].high_key <= heap[c[i + 1]].high_key

\* a chain of three internal nodes below the root, on a tree whose first
\* root was constructed with a high_key above every key
C20_ThreeInternalSiblings ==
  /\ heap[root].level = 2 /\ Len(Chain(1)) = 3
  /\ heap[Chain(0)[Len(Chain(0))]].high_key = 1000

(***************************************************************************)
(* The capacity of a node                                                  *)
(***************************************************************************)
\* C21: in every reachable state a leaf has at most LeafCardinality entries
\* and an internal node at most InternalCardinality - 1 keys, with one child
\* more than keys: no insert is applied to a full node, and the insert that
\* follows a split overfills neither half.
C21_CountWithinCapacity ==
  \A n \in Nodes :
    IF heap[n].level = 0
    THEN cnt(heap[n]) <= LeafCardinality /\ Len(heap[n].vals) = cnt(heap[n])
    ELSE /\ cnt(heap[n]) <= InternalCardinality - 1
         /\ Len(heap[n].vals) = cnt(heap[n]) + 1

\* a full internal node has been split, and a leaf and an internal node
\* are full again
C21_FullAfterSplits ==
  /\ heap[root].level = 2
  /\ \E n \in Leaves : LeafIsFull(heap[n])
  /\ \E n \in Nodes \ Leaves : InternalIsFull(heap[n])

(***************************************************************************)
(* The count of the root                                                   *)
(***************************************************************************)
\* C22 as the specification states it: once an insert has been called and
\* every operation has returned, the root has at least one key.
C22_RootNeverEmptyAfterInsert ==
  (Quiescent /\ "insert" \in called) => cnt(heap[root]) >= 1

\* C22 as the code behaves: the root has count 0 only while it is the leaf
\* the tree was constructed with, no other node exists and no key is stored
\* (before the first insert, and again when removes have taken away every
\* inserted key); a root that is an internal node has at least one key.
C22_EmptyRootIsTheFirstLeaf ==
  cnt(heap[root]) = 0 =>
    /\ root = 1 /\ heap[root].level = 0 /\ Len(heap) = 1
    /\ Quiescent => abs = {}

\* a key has been inserted and removed again, and the root is empty
C22_EmptiedByRemove ==
  /\ Quiescent /\ "insert" \in called /\ removed /= {}
  /\ cnt(heap[root]) = 0

(***************************************************************************)
(* high_key as the upper bound of a subtree                                *)
(***************************************************************************)
\* C23 as the specification states it: in every reachable state every key
\* stored in the subtree of a node is <= the high_key of the node, for every
\* node.
C23_HighKeyBoundsEverySubtree ==
  \A n \in Nodes : \A k \in SubtreeKeys(n) : k <= heap[n].high_key

\* C23 as the code behaves: in every reachable state every key stored in
\* the subtree of a node is <= the high_key of the node, for every leaf and
\* for every internal node that has a right sibling.  (The high_key of the
\* last internal node of a level, the root included, is raised only by the
\* separators it receives.)
C23_HighKeyBoundsSubtree ==
  \A n \in Nodes :
    (heap[n].level = 0 \/ heap[n].sibling_ptr /= Null) =>
      \A k \in SubtreeKeys(n) : k <= heap[n].high_key

\* the last internal node of a level has a key in its subtree that is above
\* its high_key, next to an internal node that has a sibling and separators
C23_LastNodeBelowItsKeys ==
  /\ \E n \in Nodes \ Leaves :
       /\ heap[n].sibling_ptr = Null
       /\ \E k \in SubtreeKeys(n) : k > heap[n].high_key
  /\ \E n \in Nodes \ Leaves : heap[n].sibling_ptr /= Null /\ cnt(heap[n]) >= 1

(***************************************************************************)
(* The latch of a node on its own: heap is one node, and each thread calls *)
(* the lock primitives of Node on it, one after the other.  A thread keeps *)
(* the token of try_readlock in leaf and leaf_vstart, the version that     *)
(* try_writelock has loaded in cur_vstart and what try_writelock returned  *)
(* in ret (1 for true); held is the lock the thread was told it has.       *)
(***************************************************************************)
\* Node::write_unlock_obsolete
write_unlock_obsolete(n) == [n EXCEPT !.lock = n.lock + 3]

LatchInit == InitWith({Workload(<<>>, <<>>, <<>>, 0, 0)})

\* try_writelock up to its first return: the load, need_restart and
\* if (!restart) return false
TryWritelockLoad(t) ==
  /\ Me(t).pc = "idle" /\ Me(t).held = {}
  /\ heap[1].lock + 2 <= MaxVersion
  /\ LET version == heap[1].lock
         restart == need_restart(version)
     IN IF ~restart
        THEN Only(t, [Me(t) EXCEPT !.cur_vstart = version, !.ret = 0])
        ELSE Only(t, [Me(t) EXCEPT !.cur_vstart = version, !.pc = "w_cas"])
  /\ UNCHANGED <<heap, root, Ghosts>>

\* try_writelock: lock.compare_exchange_strong(version, version + 0b10)
TryWritelockCas(t) ==
  /\ Me(t).pc = "w_cas"
  /\ IF heap[1].lock = Me(t).cur_vstart
     THEN /\ heap' = [heap EXCEPT ![1].lock = Me(t).cur_vstart + 2]
          /\ Only(t, [Me(t) EXCEPT !.pc = "idle", !.ret = 1, !.held = {1}])
     ELSE /\ Only(t, [Me(t) EXCEPT !.pc = "idle", !.ret = 0])
          /\ UNCHANGED heap
  /\ UNCHANGED <<root, Ghosts>>

\* try_readlock: the token, or restart
LatchReadlock(t) ==
  /\ Me(t).pc = "idle" /\ Me(t).held = {}
  /\ LET version == heap[1].lock
     IN IF need_restart(version)
        THEN Only(t, [Me(t) EXCEPT !.leaf = Null, !.leaf_vstart = 0])
        ELSE Only(t, [Me(t) EXCEPT !.leaf = 1, !.leaf_vstart = version])
  /\ UNCHANGED <<heap, root, Ghosts>>

\* try_upgrade_writelock(token, restart)
LatchUpgrade(t) ==
  /\ Me(t).pc = "idle" /\ Me(t).held = {} /\ Me(t).leaf = 1
  /\ heap[1].lock + 2 <= MaxVersion
  /\ IF UpgradeOk(heap[1], Me(t).leaf_vstart)
     THEN /\ heap' = [heap EXCEPT ![1] = Upgraded(@)]
          /\ Only(t, [Me(t) EXCEPT !.leaf = Null, !.leaf_vstart = 0,
                                   !.held = {1}])
     ELSE /\ Only(t, [Me(t) EXCEPT !.leaf = Null, !.leaf_vstart = 0])
          /\ UNCHANGED heap
  /\ UNCHANGED <<root, Ghosts>>

\* write_unlock by a thread that was given the lock
LatchUnlock(t) ==
  /\ Me(t).pc = "idle" /\ 1 \in Me(t).held
  /\ heap[1].lock + 2 <= MaxVersion
  /\ heap' = [heap EXCEPT ![1] = write_unlock(@)]
  /\ Only(t, [Me(t) EXCEPT !.held = {}])
  /\ UNCHANGED <<root, Ghosts>>

\* write_unlock_obsolete by a thread that was given the lock
LatchUnlockObsolete(t) ==
  /\ Me(t).pc = "idle" /\ 1 \in Me(t).held
  /\ heap[1].lock + 3 <= MaxVersion
  /\ heap' = [heap EXCEPT ![1] = write_unlock_obsolete(@)]
  /\ Only(t, [Me(t) EXCEPT !.held = {}])
  /\ UNCHANGED <<root, Ghosts>>

LatchNext ==
  \E t \in Threads :
    \/ TryWritelockLoad(t) \/ TryWritelockCas(t)
    \/ LatchReadlock(t) \/ LatchUpgrade(t)
    \/ LatchUnlock(t) \/ LatchUnlockObsolete(t)

LatchSpec == LatchInit /\ [][LatchNext]_vars

\* C24: try_writelock on a node that is neither locked nor obsolete goes on
\* to its compare-and-swap, and when the lock word has not changed since
\* the load the call returns true and the version has advanced by 2, with
\* the lock bit set; on a node that is locked or obsolete the call returns
\* false and leaves the version as it is.
C24_TryWritelock ==
  [][\A t \in Threads :
       /\ TryWritelockLoad(t) =>
            IF need_restart(heap[1].lock)
            THEN th'[t].pc = "idle" /\ th'[t].ret = 0
            ELSE th'[t].pc = "w_cas"
       /\ TryWritelockCas(t) =>
            IF heap[1].lock = Me(t).cur_vstart
            THEN /\ th'[t].ret = 1
                 /\ heap'[1].lock = heap[1].lock + 2
                 /\ is_locked(heap'[1].lock) /\ ~is_obsolete(heap'[1].lock)
            ELSE th'[t].ret = 0 /\ heap'[1].lock = heap[1].lock]_vars

\* try_writelock has returned true to a thread while the other thread held
\* the lock, and the lock bit is clear
C24_LockBitCleared ==
  \E t \in Threads : \E u \in Threads \ {t} :
    /\ Me(t).held = {1} /\ Me(u).held = {1} /\ Me(u).ret = 1
    /\ ~is_locked(heap[1].lock)

(***************************************************************************)
(* Readers                                                                 *)
(***************************************************************************)
\* C25: no step of a lookup or of a range_lookup, from its call to its
\* return and through all its restarts, changes a node (version word,
\* entries, count, high_key, sibling pointer), allocates a node or changes
\* the root pointer; and the version word of a node changes only in a step
\* of a thread that takes the write lock of the node in that step or has it.
C25_ReadersChangeNothing ==
  [][/\ \A t \in Threads :
          (/\ th'[t] /= th[t]
           /\ \/ Me(t).op.kind \in {"lookup", "range_lookup"}
              \/ th'[t].op.kind \in {"lookup", "range_lookup"})
            => heap' = heap /\ root' = root
     /\ \A n \in Nodes :
          heap'[n].lock /= heap[n].lock =>
            \E t \in Threads :
              /\ th'[t] /= th[t] /\ ~(Me(t).op.kind \in {"lookup", "range_lookup"})
              /\ \/ n \in Me(t).held
                 \/ /\ n \in th'[t].held /\ Holders(n) = {}
                    /\ ~need_restart(heap[n].lock)
                    /\ heap'[n].lock = heap[n].lock + 2]_vars

\* a lookup or a range_lookup that ran next to a write has returned while
\* the other thread has a write lock
C25_ReaderBesideWriter ==
  \E t \in Threads :
    /\ Returned(t, {"lookup", "range_lookup"}) /\ ~Me(t).quiet
    /\ \E u \in Threads \ {t} : Me(u).held /= {}

(***************************************************************************)
(* LeafNode::split                                                         *)
(***************************************************************************)
\* C26: when an insert of (key, value) finds its write-locked leaf full,
\* with entries e[0..cnt) and half = cnt / 2, then after the split and the
\* insert of the pending entry: the left leaf has exactly e[0..half) and the
\* new right leaf exactly e[half..cnt), in the same order, apart from the
\* pending entry; the separator is e[half - 1].key and is the high_key of
\* the left; the right has the old sibling pointer and level and the old
\* high_key (raised to the pending key when that is larger), and lock word
\* 0; the sibling of the left is the right; the left is still locked; and
\* the pending entry is in the left iff key <= separator, and in the right
\* otherwise, exactly once.
C26_LeafSplit ==
  [][\A t \in Threads :
       (Me(t).pc = "i_apply" /\ th'[t].pc = "i_grow") =>
         LET n == heap[Me(t).leaf]
             key == Me(t).op.key
             half == cnt(n) \div 2
             sep == n.keys[half]
             L == heap'[Me(t).leaf]
             R == heap'[th'[t].right_node]
             Entries(m) == [i \in 1..cnt(m) |-> <<m.keys[i], m.vals[i]>>]
             Old(e) == e[1] /= key
             Pending(e) == e = <<key, Me(t).op.value>>
         IN /\ cnt(n) = LeafCardinality /\ is_locked(n.lock)
            /\ th'[t].right_node = Len(heap) + 1 /\ Len(heap') = Len(heap) + 1
            /\ th'[t].left_node = Me(t).leaf /\ th'[t].split_key = sep
            /\ SelectSeq(Entries(L), Old) = SubSeq(Entries(n), 1, half)
            /\ SelectSeq(Entries(R), Old) = SubSeq(Entries(n), half + 1, cnt(n))
            /\ Len(SelectSeq(Entries(L), Pending)) = IF key <= sep THEN 1 ELSE 0
            /\ Len(SelectSeq(Entries(R), Pending)) = IF key <= sep THEN 0 ELSE 1
            /\ cnt(L) + cnt(R) = cnt(n) + 1
            /\ L.high_key = sep /\ L.sibling_ptr = th'[t].right_node
            /\ L.lock = n.lock /\ L.level = n.level
            /\ R.sibling_ptr = n.sibling_ptr /\ R.level = n.level
            /\ R.high_key = IF key > n.high_key THEN key ELSE n.high_key
            /\ R.lock = 0
            /\ \A m \in Nodes \ {Me(t).leaf} : heap'[m] = heap[m]]_vars

\* a full leaf that has a sibling has been split and the pending key has
\* gone to the left half
C26_PendingKeyOnTheLeft ==
  \E t \in Threads :
    /\ Me(t).pc = "i_grow" /\ Me(t).op.key <= Me(t).split_key
    /\ heap[Me(t).right_node].sibling_ptr /= Null
    /\ \E i \in 1..cnt(heap[Me(t).left_node]) :
         heap[Me(t).left_node].keys[i] = Me(t).op.key

(***************************************************************************)
(* InternalNode::split                                                     *)
(***************************************************************************)
\* C27 as the specification states it: when a writer splits a full internal
\* node with keys entry[0..count) and children entry[0..count], with
\* half = count - count / 2, the separator is entry[half].key and is a key
\* of neither half, and, the pending separator and child apart, the left
\* keeps the keys entry[0..half) and the children entry[0..half] and the
\* new right node has the keys entry[half + 1..count) and the children
\* entry[half..count], the child of entry[half] being its leftmost child.
C27_RightStartsAtHalf ==
  [][\A t \in Threads :
       (\/ Me(t).pc = "b_ins" /\ th'[t].pc \in {"b_plock", "b_grow"}
        \/ Me(t).pc = "u_ins" /\ th'[t].pc = "u_grow") =>
         LET n == heap[th'[t].left_node]
             half == cnt(n) - (cnt(n) \div 2)
             L == heap'[th'[t].left_node]
             R == heap'[th'[t].right_node]
             OldKey(k) == k /= Me(t).split_key
             OldChild(c) == c /= Me(t).right_node
         IN /\ cnt(n) = InternalCardinality - 1
            /\ th'[t].split_key = n.keys[half + 1]
            /\ \A i \in 1..cnt(L) : L.keys[i] /= n.keys[half + 1]
            /\ \A i \in 1..cnt(R) : R.keys[i] /= n.keys[half + 1]
            /\ SelectSeq(L.keys, OldKey) = SubSeq(n.keys, 1, half)
            /\ SelectSeq(R.keys, OldKey) = SubSeq(n.keys, half + 2, cnt(n))
            /\ SelectSeq(L.vals, OldChild) = SubSeq(n.vals, 1, half + 1)
            /\ SelectSeq(R.vals, OldChild) = SubSeq(n.vals, half + 1, cnt(n) + 1)
            /\ R.vals[1] = n.vals[half + 1]]_vars

\* C27 as the code behaves: the same, but the children of the new right
\* node are entry[half + 1..count], and its leftmost child is the child of
\* entry[half + 1]; the child of entry[half] is the last child of the left
\* node only.
C27_RightStartsAfterHalf ==
  [][\A t \in Threads :
       (\/ Me(t).pc = "b_ins" /\ th'[t].pc \in {"b_plock", "b_grow"}
        \/ Me(t).pc = "u_ins" /\ th'[t].pc = "u_grow") =>
         LET n == heap[th'[t].left_node]
             half == cnt(n) - (cnt(n) \div 2)
             L == heap'[th'[t].left_node]
             R == heap'[th'[t].right_node]
             OldKey(k) == k /= Me(t).split_key
             OldChild(c) == c /= Me(t).right_node
         IN /\ cnt(n) = InternalCardinality - 1
            /\ th'[t].split_key = n.keys[half + 1]
            /\ \A i \in 1..cnt(L) : L.keys[i] /= n.keys[half + 1]
            /\ \A i \in 1..cnt(R) : R.keys[i] /= n.keys[half + 1]
            /\ SelectSeq(L.keys, OldKey) = SubSeq(n.keys, 1, half)
            /\ SelectSeq(R.keys, OldKey) = SubSeq(n.keys, half + 2, cnt(n))
            /\ SelectSeq(L.vals, OldChild) = SubSeq(n.vals, 1, half + 1)
            /\ SelectSeq(R.vals, OldChild) = SubSeq(n.vals, half + 2, cnt(n) + 1)
            /\ R.vals[1] = n.vals[half + 2]]_vars

\* an internal node that has a sibling has been split, and the separator
\* routes to the last child of the left half
C27_InternalNodeSplit ==
  \E t \in Threads :
    /\ Me(t).pc \in {"b_grow", "u_grow"}
    /\ heap[Me(t).left_node].level >= 1 /\ heap[Me(t).right_node].level >= 1
    /\ heap[Me(t).left_node].sibling_ptr = Me(t).right_node
    /\ heap[Me(t).left_node].high_key = Me(t).split_key
    /\ Len(heap[Me(t).right_node].vals) = cnt(heap[Me(t).right_node]) + 1

(***************************************************************************)
(* What remove changes                                                     *)
(***************************************************************************)
\* C28: every step of a remove(k) leaves the root pointer, the number of
\* nodes and every node but the leaf its descent has ended at unchanged; of
\* that leaf it changes the lock word, by 2 when it takes the lock and by 2
\* when it releases it, and between the two the entries, from which the
\* entry of k is taken out if there is one; high_key, sibling pointer and
\* level of the leaf stay, also when the leaf becomes empty.  A leaf without
\* entries is in the sibling chain of the leaves in every reachable state,
\* and an insert of a key in the range of such a leaf (above the high_key
\* of the leaf in front of it, and not above its own unless it is the last
\* leaf) stores the key in that leaf.
C28_RemoveChangesOneLeaf ==
  /\ [](\A n \in Leaves :
          cnt(heap[n]) = 0 => \E i \in 1..Len(Chain(0)) : Chain(0)[i] = n)
  /\ [][\A t \in Threads :
          /\ (/\ th'[t] /= th[t]
              /\ Me(t).op.kind = "remove" \/ th'[t].op.kind = "remove") =>
               /\ root' = root /\ Len(heap') = Len(heap)
               /\ \A n \in Nodes :
                    heap'[n] /= heap[n] =>
                      LET old == heap[n]
                          new == heap'[n]
                          k == Me(t).op.key
                          Other(key) == key /= k
                      IN /\ n = Me(t).leaf /\ old.level = 0
                         /\ new.high_key = old.high_key
                         /\ new.sibling_ptr = old.sibling_ptr
                         /\ new.level = old.level
                         /\ CASE Me(t).pc = "upg" ->
                                   /\ new.lock = old.lock + 2
                                   /\ new.keys = old.keys /\ new.vals = old.vals
                              [] Me(t).pc = "d_rem" ->
                                   /\ new.lock = old.lock /\ is_locked(old.lock)
                                   /\ new.keys = SelectSeq(old.keys, Other)
                                   /\ cnt(new) = cnt(old) - 1
                                   /\ Len(new.vals) = cnt(new)
                                   /\ \A i \in 1..cnt(new) :
                                        \E j \in 1..cnt(old) :
                                          /\ old.keys[j] = new.keys[i]
                                          /\ old.vals[j] = new.vals[i]
                              [] Me(t).pc = "leaf_unl" ->
                                   /\ new.lock = old.lock + 2
                                   /\ ~is_locked(new.lock)
                                   /\ new.keys = old.keys /\ new.vals = old.vals
                              [] OTHER -> FALSE
          /\ (Me(t).pc = "i_apply" /\ th'[t].pc /= "i_apply") =>
               \A n \in Leaves :
                 (/\ cnt(heap[n]) = 0
                  /\ heap[n].sibling_ptr = Null \/ Me(t).op.key <= heap[n].high_key
                  /\ \A m \in Leaves : heap[m].sibling_ptr = n =>
                                         heap[m].high_key < Me(t).op.key) =>
                   /\ Me(t).leaf = n
                   /\ heap'[n].keys = <<Me(t).op.key>>
                   /\ heap'[n].vals = <<Me(t).op.value>>]_vars

\* the first of three leaves was emptied by removes and has then received
\* the key 15, under the high_key it had before
C28_InsertIntoEmptiedLeaf ==
  \E n \in Leaves :
    /\ heap[n].keys = <<15>> /\ heap[n].high_key = 20
    /\ heap[n].sibling_ptr /= Null
    /\ Get(removed, 10) >= 1 /\ Get(removed, 20) >= 1

(***************************************************************************)
(* range_lookup next to inserts                                            *)
(***************************************************************************)
\* C29: when only inserts (of distinct keys) and reads are called, a
\* range_lookup(a, n, out) that returns c, whatever inserts and splits ran
\* next to it, has c <= n, and out[0..c) are values of strictly ascending
\* keys that are all >= a, each the value that was inserted for its key (so
\* no key is reported twice); and every key >= a that was in a leaf when
\* the range_lookup was called and is smaller than the last key reported is
\* reported.
C29_ScanBesideInserts ==
  \A t \in Threads :
    (/\ Returned(t, {"range_lookup"})
     /\ called \subseteq {"insert", "lookup", "range_lookup", "height"}) =>
      LET a == Me(t).op.key
          c == Me(t).ret
          out == Me(t).buf
      IN /\ 0 <= c /\ c <= Me(t).op.range /\ c <= Len(out)
         /\ \A i \in 1..c : <<out[i] - 100, out[i]>> \in seen /\ out[i] - 100 >= a
         /\ \A i \in 1..(c - 1) : out[i] < out[i + 1]
         /\ \A k \in Me(t).stored :
              (k >= a /\ c > 0 /\ k < out[c] - 100) =>
                \E i \in 1..c : out[i] = 100 + k

\* a range_lookup has returned values from two leaves, one of them the
\* value of a key that was inserted after the call, while the other thread
\* is inserting
C29_ScannedAcrossASplit ==
  \E t \in Threads :
    /\ Returned(t, {"range_lookup"}) /\ Me(t).ret >= 4 /\ ~Me(t).quiet
    /\ called \subseteq {"insert", "lookup", "range_lookup", "height"}
    /\ \E i \in 1..Me(t).ret : ~((Me(t).buf[i] - 100) \in Me(t).stored)
    /\ \E u \in Threads \ {t} : Me(u).op.kind = "insert"

C31_DescentStopsAbovePrev ==
  \A t \in Threads :
    /\ ~Me(t).wild /\ Me(t).pc /= "wild"
    /\ Me(t).pc \in {"u_root", "u_rlock", "u_scan", "u_clock", "u_val",
                     "u_chase", "u_slock", "u_sval", "u_upg", "u_unl", "u_ins"} =>
         LET up == heap[Me(t).left_node].level + 1
         IN /\ heap[root].level >= up
            /\ Me(t).cur /= Null => heap[Me(t).cur].level >= up
            /\ Me(t).pc \in {"u_scan", "u_clock", "u_val"} =>
                 /\ heap[Me(t).cur].level > up
                 /\ Me(t).child /= Null => heap[Me(t).child].level >= up
            /\ Me(t).pc \in {"u_chase", "u_slock", "u_sval", "u_upg", "u_unl",
                             "u_ins"} =>
                 /\ heap[Me(t).cur].level = up
                 /\ \E i \in 1..Len(Chain(up)) : Chain(up)[i] = Me(t).cur
                 /\ Me(t).sibling /= Null => heap[Me(t).sibling].level = up
            /\ \A n \in Me(t).held \ {Me(t).left_node} :
                 n = Me(t).cur /\ heap[n].level = up

\* update_splitted_root has come down from a root two levels above prev and
\* has the write lock of a node one level above prev
C31_DescendedFromHigherRoot ==
  \E t \in Threads :
    /\ Me(t).pc = "u_ins" /\ Me(t).cur \in Me(t).held
    /\ heap[root].level = heap[Me(t).left_node].level + 2

(***************************************************************************)
(* The locks after a return                                                *)
(***************************************************************************)
\* C32: in every reachable state a thread that is in no operation, or has
\* reached the return of a public operation, holds no write lock; the lock
\* bit of a node is set exactly while a thread holds the node (each lock is
\* released once, by write_unlock), the obsolete bit of no node is set; so
\* when every thread is in no operation, the lock word of every node is a
\* multiple of 4.
C32_NoLockAfterReturn ==
  /\ \A t \in Threads : Me(t).pc \in {"idle", "ret"} => Me(t).held = {}
  /\ \A n \in Nodes :
       /\ ~is_obsolete(heap[n].lock)
       /\ is_locked(heap[n].lock) <=> Holders(n) /= {}
  /\ Quiescent => \A n \in Nodes : heap[n].lock % 4 = 0

\* every operation has returned on a tree of three levels whose first leaf,
\* an internal node and the root have been locked and unlocked
C32_AllUnlockedAfterSplits ==
  /\ Quiescent /\ heap[root].level = 2 /\ heap[1].lock >= 8
  /\ \E n \in Nodes : heap[n].level = 1 /\ heap[n].lock >= 8
  /\ heap[root].lock >= 4
  /\ \A n \in Nodes : ~is_locked(heap[n].lock)

=============================================================================
